---------------------------- MODULE Spec2Model ----------------------------
(***************************************************************************)
(* A model of src/proxy_server/proxy_server.py: the HTTP cache, the        *)
(* thread-per-connection TCP proxy and the thread-per-datagram UDP proxy.  *)
(*                                                                         *)
(* Bytes are sequences of naturals 0..255, text (Python str) is a sequence *)
(* of code points.  The conversions between the two are computed as        *)
(* CPython computes them.  Python's None is the empty sequence: a path is  *)
(* a token of str.split(), which is never empty.                           *)
(***************************************************************************)
EXTENDS Naturals, Sequences, FiniteSets, TLC

(***************************************************************************)
(* Python text operations.                                                 *)
(***************************************************************************)

\* bytes.decode('utf-8'): [text, ok].  text is what errors='ignore' yields
\* (every undecodable span dropped); ok is FALSE when the strict decoder
\* raises UnicodeDecodeError.
RECURSIVE Utf8Decode(_)
Utf8Decode(b) ==
    IF b = << >> THEN [text |-> << >>, ok |-> TRUE]
    ELSE
      LET n    == Len(b)
          c1   == b[1]
          Cont(i) == i <= n /\ b[i] >= 128 /\ b[i] <= 191
          \* the second byte of a 3- or 4-byte form has a narrower range
          Second3 == Cont(2) /\ (c1 = 224 => b[2] >= 160) /\ (c1 = 237 => b[2] <= 159)
          Second4 == Cont(2) /\ (c1 = 240 => b[2] >= 144) /\ (c1 = 244 => b[2] <= 143)
          Good(k, cp) == LET r == Utf8Decode(SubSeq(b, k + 1, n))
                         IN  [text |-> <<cp>> \o r.text, ok |-> r.ok]
          Skip(k)     == [text |-> Utf8Decode(SubSeq(b, k + 1, n)).text, ok |-> FALSE]
      IN  IF c1 < 128 THEN Good(1, c1)
          ELSE IF c1 < 194 THEN Skip(1)
          ELSE IF c1 < 224 THEN
               IF n < 2 THEN Skip(n)
               ELSE IF Cont(2) THEN Good(2, (c1 - 192) * 64 + (b[2] - 128))
               ELSE Skip(1)
          ELSE IF c1 < 240 THEN
               IF n < 2 THEN Skip(n)
               ELSE IF ~Second3 THEN Skip(1)
               ELSE IF n < 3 THEN Skip(n)
               ELSE IF Cont(3)
                    THEN Good(3, (c1 - 224) * 4096 + (b[2] - 128) * 64 + (b[3] - 128))
               ELSE Skip(2)
          ELSE IF c1 < 245 THEN
               IF n < 2 THEN Skip(n)
               ELSE IF ~Second4 THEN Skip(1)
               ELSE IF n < 3 THEN Skip(n)
               ELSE IF ~Cont(3) THEN Skip(2)
               ELSE IF n < 4 THEN Skip(n)
               ELSE IF Cont(4)
                    THEN Good(4, (c1 - 240) * 262144 + (b[2] - 128) * 4096
                                 + (b[3] - 128) * 64 + (b[4] - 128))
               ELSE Skip(3)
          ELSE Skip(1)

\* str.encode('utf-8', errors='ignore'): a lone surrogate is dropped.
RECURSIVE Utf8Encode(_)
Utf8Encode(s) ==
    IF s = << >> THEN << >>
    ELSE
      LET c == s[1]
          head == IF c < 128 THEN <<c>>
                  ELSE IF c < 2048 THEN <<192 + (c \div 64), 128 + (c % 64)>>
                  ELSE IF c >= 55296 /\ c <= 57343 THEN << >>
                  ELSE IF c < 65536
                       THEN <<224 + (c \div 4096), 128 + ((c \div 64) % 64), 128 + (c % 64)>>
                  ELSE <<240 + (c \div 262144), 128 + ((c \div 4096) % 64),
                         128 + ((c \div 64) % 64), 128 + (c % 64)>>
      IN  head \o Utf8Encode(Tail(s))

\* str.startswith(prefix)
StartsWith(s, prefix) ==
    /\ Len(s) >= Len(prefix)
    /\ SubSeq(s, 1, Len(prefix)) = prefix

\* str.isspace() of one code point
IsSpace(c) ==
    \/ c >= 9 /\ c <= 13
    \/ c >= 28 /\ c <= 32
    \/ c \in {133, 160, 5760, 8232, 8233, 8239, 8287, 12288}
    \/ c >= 8192 /\ c <= 8202

\* request_data.split('\r\n')[0]
RECURSIVE FirstLine(_)
FirstLine(s) ==
    IF s = << >> THEN << >>
    ELSE IF Len(s) >= 2 /\ s[1] = 13 /\ s[2] = 10 THEN << >>
    ELSE <<s[1]>> \o FirstLine(Tail(s))

\* str.split(): the maximal runs of non-whitespace, in order
RECURSIVE SplitWs(_)
SplitWs(s) ==
    IF s = << >> THEN << >>
    ELSE IF IsSpace(s[1]) THEN SplitWs(Tail(s))
    ELSE LET stop == IF \E i \in 1..Len(s) : IsSpace(s[i])
                     THEN CHOOSE i \in 1..Len(s) :
                            IsSpace(s[i]) /\ \A j \in 1..(i - 1) : ~IsSpace(s[j])
                     ELSE Len(s) + 1
         IN  <<SubSeq(s, 1, stop - 1)>> \o SplitWs(SubSeq(s, stop, Len(s)))

None == << >>

\* A faulty extract_path that drops the query string from the path: C25
\* tells it from extract_path.
extract_path_noquery(request_data) ==
    LET parts == SplitWs(FirstLine(request_data))
        RECURSIVE UpToQuery(_)
        UpToQuery(t) == IF t = << >> \/ t[1] = 63 THEN << >>
                        ELSE <<t[1]>> \o UpToQuery(Tail(t))
    IN  IF Len(parts) >= 2 THEN UpToQuery(parts[2]) ELSE None

\* HTTPProxy.extract_path
extract_path(request_data) ==
    LET parts == SplitWs(FirstLine(request_data))
    IN  IF Len(parts) >= 2 THEN parts[2] ELSE None


(***************************************************************************)
(* Wire data: the byte strings of the model's clients and origin.          *)
(***************************************************************************)

\* "HTTP/1.1 200", the prefix HTTPCache.set tests
Prefix200 ==
    <<72, 84, 84, 80, 47, 49, 46, 49, 32, 50, 48, 48>>

\* "HTTP/1.1 504 Gateway Timeout\r\nContent-Type: text/plain\r\n\r\n504 Gateway Timeout"
Resp504 ==
    <<72, 84, 84, 80, 47, 49, 46, 49, 32, 53, 48, 52, 32, 71, 97, 116, 101,
      119, 97, 121, 32, 84, 105, 109, 101, 111, 117, 116, 13, 10, 67, 111,
      110, 116, 101, 110, 116, 45, 84, 121, 112, 101, 58, 32, 116, 101, 120,
      116, 47, 112, 108, 97, 105, 110, 13, 10, 13, 10, 53, 48, 52, 32, 71,
      97, 116, 101, 119, 97, 121, 32, 84, 105, 109, 101, 111, 117, 116>>

\* "HTTP/1.1 502 Bad Gateway\r\nContent-Type: text/plain\r\n\r\n502 Bad Gateway"
Resp502 ==
    <<72, 84, 84, 80, 47, 49, 46, 49, 32, 53, 48, 50, 32, 66, 97, 100, 32,
      71, 97, 116, 101, 119, 97, 121, 13, 10, 67, 111, 110, 116, 101, 110,
      116, 45, 84, 121, 112, 101, 58, 32, 116, 101, 120, 116, 47, 112, 108,
      97, 105, 110, 13, 10, 13, 10, 53, 48, 50, 32, 66, 97, 100, 32, 71, 97,
      116, 101, 119, 97, 121>>

\* b"GET /a HTTP/1.1\r\n\r\n"
ReqA ==
    <<71, 69, 84, 32, 47, 97, 32, 72, 84, 84, 80, 47, 49, 46, 49, 13, 10,
      13, 10>>

\* b"GET /b HTTP/1.1\r\n\r\n"
ReqB ==
    <<71, 69, 84, 32, 47, 98, 32, 72, 84, 84, 80, 47, 49, 46, 49, 13, 10,
      13, 10>>

\* b"GET /A HTTP/1.1\r\n\r\n"
ReqUpperA ==
    <<71, 69, 84, 32, 47, 65, 32, 72, 84, 84, 80, 47, 49, 46, 49, 13, 10,
      13, 10>>

\* b"GET /a?x=1 HTTP/1.1\r\n\r\n"
ReqQueryA ==
    <<71, 69, 84, 32, 47, 97, 63, 120, 61, 49, 32, 72, 84, 84, 80, 47, 49,
      46, 49, 13, 10, 13, 10>>

\* b"POST /a HTTP/1.0\r\nH: v\r\n\r\nbody"
ReqPostA ==
    <<80, 79, 83, 84, 32, 47, 97, 32, 72, 84, 84, 80, 47, 49, 46, 48, 13,
      10, 72, 58, 32, 118, 13, 10, 13, 10, 98, 111, 100, 121>>

\* b"GET\r\n\r\n": a request line without a second token
ReqNoPath ==
    <<71, 69, 84, 13, 10, 13, 10>>

\* b"GET /a HTTP/1.1\r\nX: \xff\r\n\r\n": a request that is not UTF-8
ReqBad ==
    <<71, 69, 84, 32, 47, 97, 32, 72, 84, 84, 80, 47, 49, 46, 49, 13, 10,
      88, 58, 32, 255, 13, 10, 13, 10>>

\* b"HTTP/1.1 200 OK\r\n\r\nA"
Ok200A ==
    <<72, 84, 84, 80, 47, 49, 46, 49, 32, 50, 48, 48, 32, 79, 75, 13, 10,
      13, 10, 65>>

\* b"HTTP/1.1 200 OK\r\n" and b"\r\nB": one response read in two chunks
Ok200B1 ==
    <<72, 84, 84, 80, 47, 49, 46, 49, 32, 50, 48, 48, 32, 79, 75, 13, 10>>

Ok200B2 ==
    <<13, 10, 66>>

\* b"HTTP/1.1 404 Not Found\r\n\r\n"
NotFound404 ==
    <<72, 84, 84, 80, 47, 49, 46, 49, 32, 52, 48, 52, 32, 78, 111, 116, 32,
      70, 111, 117, 110, 100, 13, 10, 13, 10>>

\* b"HTTP/1.1 200 OK\r\n\r\n\xffA": a 200 response whose body is not UTF-8
Bin200 ==
    <<72, 84, 84, 80, 47, 49, 46, 49, 32, 50, 48, 48, 32, 79, 75, 13, 10,
      13, 10, 255, 65>>

\* What the client's socket yields to the one recv(4096) of handle_client.
Read(kind, bytes) == [kind |-> kind, bytes |-> bytes]

NoRead == Read("none", << >>)

\* the clients of the concurrent specification: all ask for /a
ClientReads ==
    { Read("data", ReqA),
      Read("data", ReqBad),
      Read("data", << >>),        \* the peer closed
      Read("timeout", << >>),     \* socket.timeout
      Read("error", << >>) }      \* e.g. ConnectionResetError

\* the clients of the sequential specification: two paths and no path
AllClientReads == ClientReads \cup { Read("data", ReqB), Read("data", ReqNoPath) }

\* What the origin does with one connection of forward_to_web_server:
\* connect() and sendall() each succeed, time out, are refused (connect)
\* or fail otherwise; then recv() yields the chunks and ends with the peer
\* closing (b""), socket.timeout, or another error.
Origin(connect, send, chunks, end) ==
    [connect |-> connect, send |-> send, chunks |-> chunks, end |-> end]

NoOrigin == Origin("none", "none", << >>, "none")

\* the origin of the concurrent specification
OriginBehaviours ==
    { Origin("refused", "none", << >>, "none"),
      Origin("timeout", "none", << >>, "none"),
      Origin("error", "none", << >>, "none"),
      Origin("ok", "error", << >>, "none"),
      Origin("ok", "ok", <<Ok200B1>>, "error"),
      Origin("ok", "ok", << >>, "timeout"),
      Origin("ok", "ok", <<Ok200A>>, "close"),
      Origin("ok", "ok", <<Ok200B1, Ok200B2>>, "timeout"),
      Origin("ok", "ok", <<NotFound404>>, "close") }

\* the origin of the sequential specification: every outcome of every call
AllOriginBehaviours ==
    OriginBehaviours \cup
    { Origin("ok", "timeout", << >>, "none"),
      Origin("ok", "ok", << >>, "close"),
      Origin("ok", "ok", <<Bin200>>, "close") }

\* clients whose requests differ in the path's case or query string, or in
\* everything but the path
KeyReads ==
    { Read("data", ReqA),
      Read("data", ReqUpperA),
      Read("data", ReqQueryA),
      Read("data", ReqPostA) }

\* clients that all ask for /a while the origin's 200 response changes
RaceReads == { Read("data", ReqA) }

RaceOriginBehaviours ==
    { Origin("ok", "ok", <<Ok200A>>, "close"),
      Origin("ok", "ok", <<Ok200B1, Ok200B2>>, "timeout") }

\* The datagrams clients send to the UDP proxy: b"P1", b"P2"
UdpPayloads == { <<80, 49>>, <<80, 50>> }

\* What the forward socket of one handle_packet call meets: socket() or
\* sendto() raises, recvfrom() times out or raises, or recvfrom() returns
\* a datagram: an echo of b"P1", b"X", or an empty datagram.
UdpOrigin(kind, reply) == [kind |-> kind, reply |-> reply]

NoUdpOrigin == UdpOrigin("none", << >>)

UdpOriginBehaviours ==
    { UdpOrigin("socket_error", << >>),
      UdpOrigin("send_error", << >>),
      UdpOrigin("timeout", << >>),
      UdpOrigin("recv_error", << >>),
      UdpOrigin("reply", <<80, 49>>),
      UdpOrigin("reply", <<88>>),
      UdpOrigin("reply", << >>) }

(***************************************************************************)
(* Bounds.                                                                 *)
(***************************************************************************)

\* TCP connections handled concurrently (Spec)
NumConn == 2

\* TCP connections handled one after the other (SpecSeq)
SeqConn == 2

\* concurrent TCP connections of the changing-origin scenario (SpecRace)
RaceConn == 3
\* the datagrams that arrive while print_stats runs
StatsPkt == 1
\* the chunks of an endless reply are counted modulo ChunkWindow
ChunkWindow == 2

\* UDP datagrams received by the proxy (SpecUDP)
NumPkt == 2

(***************************************************************************)
(* State.                                                                  *)
(***************************************************************************)
VARIABLES
    cache,      \* HTTPCache.cache: path -> response text
    stats,      \* HTTPProxy.stats
    conn,       \* per accepted connection: the locals of handle_client
    lastOp,     \* the last direct call of an HTTPCache method
    udp_stats,  \* UDPQoSProxy.stats
    udp,        \* UDPQoSProxy.running, its socket and its receive loop
    pkt,        \* per datagram: the locals of handle_packet
    tcp,        \* HTTPProxy.running, its listening socket and its accept loop
    report      \* print_stats: its position, the lock it holds, what it read

vars == <<cache, stats, conn, lastOp, udp_stats, udp, pkt, tcp, report>>

\* the state of the UDP proxy and of the stats thread, which no TCP handler
\* touches
udpVars == <<udp_stats, udp, pkt, report>>

(***************************************************************************)
(* HTTPCache.  Every method body runs under self.lock, so each is one      *)
(* atomic operation on the map.                                            *)
(***************************************************************************)
EmptyCache == [p \in {} |-> << >>]

\* HTTPCache.get: found is FALSE for Python's None
HTTPCache_get(c, path) ==
    IF path \in DOMAIN c
    THEN [found |-> TRUE, value |-> c[path]]
    ELSE [found |-> FALSE, value |-> << >>]

\* Python truth of get's result: None and "" are false
Truthy(r) == r.found /\ r.value # << >>

\* A faulty set that admits every response starting "HTTP/1.1 20": C3
\* tells it from HTTPCache.set.
HTTPCache_set_20x(c, path, response) ==
    IF StartsWith(response, <<72, 84, 84, 80, 47, 49, 46, 49, 32, 50, 48>>)
    THEN [cache |-> (path :> response) @@ c, ret |-> TRUE]
    ELSE [cache |-> c, ret |-> FALSE]

\* A faulty set without the admission filter: C4 tells it from
\* HTTPCache.set.
HTTPCache_set_unfiltered(c, path, response) ==
    [cache |-> (path :> response) @@ c, ret |-> TRUE]

\* A faulty set with room for one entry, which evicts the others: C24
\* tells it from HTTPCache.set.
HTTPCache_set_evicting(c, path, response) ==
    IF StartsWith(response, Prefix200)
    THEN [cache |-> (path :> response), ret |-> TRUE]
    ELSE [cache |-> c, ret |-> FALSE]

\* HTTPCache.set: the map afterwards and the returned flag
HTTPCache_set(c, path, response) ==
    IF StartsWith(response, Prefix200)
    THEN [cache |-> (path :> response) @@ c, ret |-> TRUE]
    ELSE [cache |-> c, ret |-> FALSE]

\* HTTPCache.clear
HTTPCache_clear(c) == EmptyCache

\* HTTPCache.get_stats
HTTPCache_get_stats(c) ==
    [cached_paths |-> Cardinality(DOMAIN c), paths |-> DOMAIN c]

(***************************************************************************)
(* HTTPProxy.                                                              *)
(***************************************************************************)

\* A faulty increment without the lock, whose second update is lost: C7
\* tells it from the locked increment.
Inc_lost(st, key) == [st EXCEPT ![key] = IF @ = 0 THEN 1 ELSE @]

\* with self.stats_lock: self.stats[key] += 1
Inc(st, key) == [st EXCEPT ![key] = @ + 1]

RECURSIVE Concat(_)
Concat(chunks) ==
    IF chunks = << >> THEN << >> ELSE Head(chunks) \o Concat(Tail(chunks))

\* A faulty forward that answers a refused connection as a timeout: C6
\* tells it from forward_to_web_server.
forward_to_web_server_refused504(o) ==
    IF o.connect \in {"timeout", "refused"}
    THEN [response |-> Resp504, counter |-> "timeout_errors"]
    ELSE IF o.connect # "ok" \/ o.send # "ok" \/ o.end = "error"
    THEN [response |-> Resp502, counter |-> "gateway_errors"]
    ELSE [response |-> Utf8Decode(Concat(o.chunks)).text, counter |-> "none"]

\* HTTPProxy.forward_to_web_server against an origin that behaves as o:
\* the returned response text and the error counter it incremented.
forward_to_web_server(o) ==
    IF o.connect = "timeout" THEN [response |-> Resp504, counter |-> "timeout_errors"]
    ELSE IF o.connect # "ok" THEN [response |-> Resp502, counter |-> "gateway_errors"]
    ELSE IF o.send = "timeout" THEN [response |-> Resp504, counter |-> "timeout_errors"]
    ELSE IF o.send # "ok" THEN [response |-> Resp502, counter |-> "gateway_errors"]
    ELSE IF o.end = "error" THEN [response |-> Resp502, counter |-> "gateway_errors"]
    \* the peer closed, or the inner "except socket.timeout: break"
    ELSE [response |-> Utf8Decode(Concat(o.chunks)).text, counter |-> "none"]

(***************************************************************************)
(* The conversions of the model's wire data, each computed once.           *)
(***************************************************************************)
WireReads == AllClientReads \cup RaceReads \cup KeyReads

WireOrigins == AllOriginBehaviours \cup RaceOriginBehaviours

\* client_socket.recv(4096).decode('utf-8') of every request
DecodedRequest == [b \in {r.bytes : r \in WireReads} |-> Utf8Decode(b)]

\* self.extract_path(request_data) of every decoded request
PathOf ==
    [t \in {DecodedRequest[b].text : b \in DOMAIN DecodedRequest} |-> extract_path(t)]

\* server_socket.sendall(request_data.encode('utf-8')) of every request
EncodedRequest ==
    [t \in {DecodedRequest[b].text : b \in DOMAIN DecodedRequest} |-> Utf8Encode(t)]

\* self.forward_to_web_server(...) against every behaviour of the origin
Forwarded == [o \in WireOrigins |-> forward_to_web_server(o)]

\* response.encode('utf-8', errors='ignore') of every response
EncodedResponse ==
    [t \in {Forwarded[o].response : o \in WireOrigins} |-> Utf8Encode(t)]

\* The locals of one handle_client call, and what its peers saw: read is
\* what the client's socket yielded, origin what the origin did,
\* origin_rx the bytes the origin received, client_rx the bytes delivered
\* to the client, trace the handler's events in order.  origin_chunks
\* counts the chunks an endless reply has delivered, modulo ChunkWindow.
NewConn ==
    [pc |-> "idle", read |-> NoRead, request_data |-> << >>, path |-> None,
     response |-> << >>, cache_status |-> "MISS", origin |-> NoOrigin,
     origin_rx |-> << >>, origin_chunks |-> 0, client_rx |-> << >>,
     trace |-> << >>]

\* with <lock>: <events>
Locked(lock, events) == <<"lock_" \o lock>> \o events \o <<"unlock_" \o lock>>

\* A faulty forward that takes stats_lock before it connects and holds it
\* to the end of the call: C11 tells it from forward_to_web_server.
ForwardEvents_lockheld(o, counter) ==
    <<"lock_stats", "origin_connect">>
    \o (IF o.connect = "ok" THEN <<"origin_send">> ELSE << >>)
    \o (IF counter = "none" THEN << >> ELSE <<counter>>)
    \o <<"unlock_stats">>

\* The events of one forward_to_web_server call against the behaviour o:
\* connect, sendall, the recv loop and close, each reached only when the
\* calls before it returned, then the except clause's locked increment.
ForwardEvents(o, counter) ==
    <<"origin_connect">>
    \o (IF o.connect = "ok" THEN <<"origin_send">> ELSE << >>)
    \o (IF o.connect = "ok" /\ o.send = "ok" THEN <<"origin_recv">> ELSE << >>)
    \o (IF o.connect = "ok" /\ o.send = "ok" /\ o.end \in {"close", "timeout"}
        THEN <<"origin_close">> ELSE << >>)
    \o (IF counter = "none" THEN << >> ELSE Locked("stats", <<counter>>))

Step(h, pc, events) ==
    [conn[h] EXCEPT !.pc = pc, !.trace = @ \o events]

\* The locals of one handle_packet call, and what its peers saw: origin is
\* what the forward socket met, sent the datagrams the handler sent through
\* the proxy's socket, trace the handler's events in order.
NewPkt ==
    [pc |-> "wire", data |-> << >>, client_address |-> 0, origin |-> NoUdpOrigin,
     response_data |-> << >>, sent |-> << >>, trace |-> << >>]

\* print_stats in time.sleep(30): no lock held, nothing read yet.  tcp and
\* udp are the counter values it logged, in the order it logged them.
NewReport ==
    [pc |-> "sleep", holding |-> "none", tcp |-> << >>, udp |-> << >>,
     cache |-> [cached_paths |-> 0, paths |-> {}]]

\* HTTPProxy.__init__, HTTPCache.__init__ and UDPQoSProxy.__init__, with the
\* two sockets bound by start() and each loop about to test self.running;
\* n TCP connections and NumPkt datagrams are still to come.
InitWith(n) ==
    /\ cache = EmptyCache
    /\ stats = [total_requests |-> 0, cache_hits |-> 0, cache_misses |-> 0,
                gateway_errors |-> 0, timeout_errors |-> 0]
    /\ conn = [h \in 1..n |-> NewConn]
    /\ lastOp = [op |-> "none"]
    /\ udp_stats = [total_packets |-> 0, forwarded_packets |-> 0,
                    failed_packets |-> 0]
    /\ udp = [running |-> TRUE, socket |-> "open", pc |-> "test"]
    /\ tcp = [running |-> TRUE, socket |-> "open", pc |-> "test"]
    /\ pkt = [k \in 1..NumPkt |-> NewPkt]
    /\ report = NewReport

\* HTTPProxy.start: the accept loop takes the next connection and starts
\* its handler thread.
Accept(h) ==
    /\ conn[h].pc = "idle"
    /\ \A g \in DOMAIN conn : g < h => conn[g].pc # "idle"
    /\ conn' = [conn EXCEPT ![h] = Step(h, "recv", <<"accept">>)]
    /\ UNCHANGED <<cache, stats, lastOp, tcp, udpVars>>

\* A faulty handler that counts the request before it looks at what it
\* read: C16 tells it from RecvRequest.
RecvRequest_counted(h, reads) ==
    /\ conn[h].pc = "recv"
    /\ \E r \in reads :
         conn' = [conn EXCEPT ![h] =
                    [Step(h, "done", Locked("stats", <<"total_requests">>)
                                     \o <<"recv_empty", "close">>)
                       EXCEPT !.read = r]]
    /\ stats' = Inc(stats, "total_requests")
    /\ UNCHANGED <<cache, lastOp, tcp, udpVars>>

\* handle_client up to the first counter: recv, decode, the empty check,
\* extract_path and total_requests += 1.  An exception or the early return
\* runs the finally clause, which closes the client socket.
RecvRequest(h, reads) ==
    /\ conn[h].pc = "recv"
    /\ \E r \in reads :
         LET d == DecodedRequest[r.bytes]
             Leave(event) == [Step(h, "done", <<event, "close">>) EXCEPT !.read = r]
         IN  IF r.kind = "timeout"
             THEN /\ conn' = [conn EXCEPT ![h] = Leave("recv_timeout")]
                  /\ UNCHANGED stats
             ELSE IF r.kind = "error" \/ ~d.ok
             THEN /\ conn' = [conn EXCEPT ![h] = Leave("recv_error")]
                  /\ UNCHANGED stats
             ELSE IF d.text = << >>
             THEN /\ conn' = [conn EXCEPT ![h] = Leave("recv_empty")]
                  /\ UNCHANGED stats
             ELSE /\ conn' = [conn EXCEPT ![h] =
                        [Step(h, "lookup", <<"recv", "parse"
                                              >> \o Locked("stats", <<"total_requests">>))
                           EXCEPT !.read = r,
                                  !.request_data = d.text,
                                  !.path = PathOf[d.text]]]
                  /\ stats' = Inc(stats, "total_requests")
    /\ UNCHANGED <<cache, lastOp, tcp, udpVars>>

\* A faulty handler that looks only GET requests up in the cache: C30
\* tells it from CacheLookup.
CacheLookup_getonly(h) ==
    /\ conn[h].pc = "lookup"
    /\ LET r == HTTPCache_get(cache, conn[h].path)
           get == StartsWith(conn[h].request_data, <<71, 69, 84, 32>>)
       IN  conn' = [conn EXCEPT ![h] =
             IF get /\ Truthy(r)
             THEN [Step(h, "hit", Locked("cache", <<"lookup_hit">>))
                     EXCEPT !.response = r.value, !.cache_status = "HIT"]
             ELSE Step(h, "forward", Locked("cache", <<"lookup_miss">>))]
    /\ UNCHANGED <<cache, stats, lastOp, tcp, udpVars>>

\* A faulty handler that goes to the origin also after a hit: C17 tells it
\* from CacheLookup.
CacheLookup_hitforwards(h) ==
    /\ conn[h].pc = "lookup"
    /\ LET r == HTTPCache_get(cache, conn[h].path)
       IN  conn' = [conn EXCEPT ![h] =
             IF Truthy(r)
             THEN [Step(h, "forward", Locked("cache", <<"lookup_hit">>))
                     EXCEPT !.response = r.value, !.cache_status = "HIT"]
             ELSE Step(h, "forward", Locked("cache", <<"lookup_miss">>))]
    /\ UNCHANGED <<cache, stats, lastOp, tcp, udpVars>>

\* cached_response = self.cache.get(path); if cached_response: ...
CacheLookup(h) ==
    /\ conn[h].pc = "lookup"
    /\ LET r == HTTPCache_get(cache, conn[h].path)
       IN  conn' = [conn EXCEPT ![h] =
             IF Truthy(r)
             THEN [Step(h, "hit", Locked("cache", <<"lookup_hit">>))
                     EXCEPT !.response = r.value, !.cache_status = "HIT"]
             ELSE Step(h, "forward", Locked("cache", <<"lookup_miss">>))]
    /\ UNCHANGED <<cache, stats, lastOp, tcp, udpVars>>

\* A faulty handler that counts a hit twice: C27 tells it from CountHit.
CountHit_twice(h) ==
    /\ conn[h].pc = "hit"
    /\ stats' = Inc(Inc(stats, "cache_hits"), "cache_hits")
    /\ conn' = [conn EXCEPT ![h] = Step(h, "send", Locked("stats", <<"cache_hits">>))]
    /\ UNCHANGED <<cache, lastOp, tcp, udpVars>>

\* self.stats["cache_hits"] += 1
CountHit(h) ==
    /\ conn[h].pc = "hit"
    /\ stats' = Inc(stats, "cache_hits")
    /\ conn' = [conn EXCEPT ![h] = Step(h, "send", Locked("stats", <<"cache_hits">>))]
    /\ UNCHANGED <<cache, lastOp, tcp, udpVars>>

\* A faulty handler that coalesces requests: when another handler has
\* already gone to the origin for the same path, it takes that handler's
\* response instead of opening a connection.  C29 tells it from Forward.
Forward_coalesced(h, origins) ==
    /\ conn[h].pc = "forward"
    /\ LET others == {g \in DOMAIN conn :
                        g # h /\ conn[g].path = conn[h].path
                        /\ conn[g].origin # NoOrigin}
       IN  IF others # {}
           THEN /\ conn' = [conn EXCEPT ![h] =
                      [Step(h, "miss", << >>)
                         EXCEPT !.response = conn[CHOOSE g \in others : TRUE].response]]
                /\ UNCHANGED stats
           ELSE \E o \in origins :
                  LET f == Forwarded[o]
                  IN  /\ conn' = [conn EXCEPT ![h] =
                            [Step(h, "miss", ForwardEvents(o, f.counter))
                               EXCEPT !.response = f.response, !.origin = o]]
                      /\ stats' = IF f.counter = "none" THEN stats
                                  ELSE Inc(stats, f.counter)
    /\ UNCHANGED <<cache, lastOp, tcp, udpVars>>

\* A faulty handler that calls forward_to_web_server a second time when
\* the first call failed: C22 tells it from Forward.
Forward_retry(h, origins) ==
    /\ conn[h].pc = "forward"
    /\ \E o \in origins :
         LET f == Forwarded[o]
             again == IF f.counter = "none" THEN << >> ELSE ForwardEvents(o, f.counter)
         IN  /\ conn' = [conn EXCEPT ![h] =
                   [Step(h, "miss", ForwardEvents(o, f.counter) \o again)
                      EXCEPT !.response = f.response, !.origin = o]]
             /\ stats' = IF f.counter = "none" THEN stats ELSE Inc(stats, f.counter)
    /\ UNCHANGED <<cache, lastOp, tcp, udpVars>>

\* response, forward_time = self.forward_to_web_server(request_data, client_ip)
\* One call opens one connection to the origin; its except clauses
\* increment the error counter under stats_lock before it returns.
Forward(h, origins) ==
    /\ conn[h].pc = "forward"
    /\ \E o \in origins :
         LET f == Forwarded[o]
         IN  /\ conn' = [conn EXCEPT ![h] =
                   [Step(h, "miss", ForwardEvents(o, f.counter))
                      EXCEPT !.response = f.response, !.origin = o,
                             !.origin_rx = IF o.connect = "ok" /\ o.send = "ok"
                                           THEN EncodedRequest[conn[h].request_data]
                                           ELSE << >>]]
             /\ stats' = IF f.counter = "none" THEN stats ELSE Inc(stats, f.counter)
    /\ UNCHANGED <<cache, lastOp, tcp, udpVars>>

\* A faulty handler that counts a miss only when the origin answered, and
\* keeps failed forwards apart: C32 tells it from CountMiss.
CountMiss_answered(h) ==
    /\ conn[h].pc = "miss"
    /\ stats' = IF Forwarded[conn[h].origin].counter = "none"
                THEN Inc(stats, "cache_misses") ELSE stats
    /\ conn' = [conn EXCEPT ![h] =
          [Step(h, "admit", Locked("stats", <<"cache_misses">>))
             EXCEPT !.cache_status = "MISS"]]
    /\ UNCHANGED <<cache, lastOp, tcp, udpVars>>

\* A faulty handler that classifies the miss without counting it: C10
\* tells it from CountMiss.
CountMiss_uncounted(h) ==
    /\ conn[h].pc = "miss"
    /\ conn' = [conn EXCEPT ![h] =
          [Step(h, "admit", <<"cache_misses">>) EXCEPT !.cache_status = "MISS"]]
    /\ UNCHANGED <<cache, stats, lastOp, tcp, udpVars>>

\* cache_status = "MISS"; self.stats["cache_misses"] += 1
CountMiss(h) ==
    /\ conn[h].pc = "miss"
    /\ stats' = Inc(stats, "cache_misses")
    /\ conn' = [conn EXCEPT ![h] =
          [Step(h, "admit", Locked("stats", <<"cache_misses">>))
             EXCEPT !.cache_status = "MISS"]]
    /\ UNCHANGED <<cache, lastOp, tcp, udpVars>>

\* self.cache.set(path, response)
Admit(h) ==
    /\ conn[h].pc = "admit"
    /\ LET r == HTTPCache_set(cache, conn[h].path, conn[h].response)
       IN  /\ cache' = r.cache
           /\ conn' = [conn EXCEPT ![h] =
                 Step(h, "send", IF r.ret THEN Locked("cache", <<"admitted">>)
                                 ELSE <<"not_admitted">>)]
    /\ UNCHANGED <<stats, lastOp, tcp, udpVars>>

\* A faulty handler whose failed send leaves the client socket open: C12
\* tells it from SendResponse.
SendResponse_noclose(h) ==
    /\ conn[h].pc = "send"
    /\ \/ conn' = [conn EXCEPT ![h] =
            [Step(h, "done", <<"sent", "log", "close">>)
               EXCEPT !.client_rx = EncodedResponse[conn[h].response]]]
       \/ conn' = [conn EXCEPT ![h] = Step(h, "done", <<"send_error">>)]
    /\ UNCHANGED <<cache, stats, lastOp, tcp, udpVars>>

\* client_socket.sendall(...), the transaction log line and the finally
\* clause.  sendall either delivers every byte or raises.
SendResponse(h) ==
    /\ conn[h].pc = "send"
    /\ \/ conn' = [conn EXCEPT ![h] =
            [Step(h, "done", <<"sent", "log", "close">>)
               EXCEPT !.client_rx = EncodedResponse[conn[h].response]]]
       \/ conn' = [conn EXCEPT ![h] = Step(h, "done", <<"send_error", "close">>)]
    /\ UNCHANGED <<cache, stats, lastOp, tcp, udpVars>>

(***************************************************************************)
(* Spec: the listener and the handler threads of NumConn connections,      *)
(* interleaved at every access to the cache and the counters.              *)
(***************************************************************************)
Init == InitWith(NumConn)

Next ==
    \E h \in 1..NumConn :
       \/ Accept(h)
       \/ RecvRequest(h, ClientReads)
       \/ CacheLookup(h)
       \/ CountHit(h)
       \/ Forward(h, OriginBehaviours)
       \/ CountMiss(h)
       \/ Admit(h)
       \/ SendResponse(h)

Spec == Init /\ [][Next]_vars

(***************************************************************************)
(* SpecSeq: a client that opens its next connection only after the         *)
(* previous one was closed, against every behaviour of the origin.         *)
(***************************************************************************)
InitSeq == InitWith(SeqConn)

AcceptSeq(h) ==
    /\ \A g \in DOMAIN conn : g < h => conn[g].pc = "done"
    /\ Accept(h)

NextSeq ==
    \E h \in 1..SeqConn :
       \/ AcceptSeq(h)
       \/ RecvRequest(h, AllClientReads)
       \/ CacheLookup(h)
       \/ CountHit(h)
       \/ Forward(h, AllOriginBehaviours)
       \/ CountMiss(h)
       \/ Admit(h)
       \/ SendResponse(h)

SpecSeq == InitSeq /\ [][NextSeq]_vars

(***************************************************************************)
(* SpecRace: RaceConn concurrent requests for one path while the origin's  *)
(* 200 response changes between two connections.                           *)
(***************************************************************************)
InitRace == InitWith(RaceConn)

NextRace ==
    \E h \in 1..RaceConn :
       \/ Accept(h)
       \/ RecvRequest(h, RaceReads)
       \/ CacheLookup(h)
       \/ CountHit(h)
       \/ Forward(h, RaceOriginBehaviours)
       \/ CountMiss(h)
       \/ Admit(h)
       \/ SendResponse(h)

SpecRace == InitRace /\ [][NextRace]_vars

(***************************************************************************)
(* UDPQoSProxy.  The receive loop of start() and one handler thread per    *)
(* datagram; the datagram numbered k comes from the client address k.      *)
(***************************************************************************)
tcpVars == <<cache, stats, conn, lastOp, tcp, report>>

PktStep(k, pc, events) ==
    [pkt[k] EXCEPT !.pc = pc, !.trace = @ \o events]

\* A faulty receive loop that never reads the flag (while True): C20 tells
\* it from UdpLoopTest.
UdpLoopTest_forever ==
    /\ udp.pc = "test"
    /\ udp' = [udp EXCEPT !.pc = "recv"]
    /\ UNCHANGED <<tcpVars, udp_stats, pkt>>

\* while self.running: ... and, once it is false, the finally clause
UdpLoopTest ==
    /\ udp.pc = "test"
    /\ udp' = IF udp.running
              THEN [udp EXCEPT !.pc = "recv"]
              ELSE [udp EXCEPT !.pc = "stopped", !.socket = "closed"]
    /\ UNCHANGED <<tcpVars, udp_stats, pkt>>

\* data, client_address = self.socket.recvfrom(65535); total_packets += 1;
\* the handler thread is started
UdpReceive(k) ==
    /\ udp.pc = "recv"
    /\ pkt[k].pc = "wire"
    /\ \A j \in DOMAIN pkt : j < k => pkt[j].pc # "wire"
    /\ \E d \in UdpPayloads :
         pkt' = [pkt EXCEPT ![k] =
                   [PktStep(k, "forward", <<"recvfrom">> \o Locked("udp_stats", <<"total_packets">>)
                                             \o <<"dispatch">>)
                      EXCEPT !.data = d, !.client_address = k]]
    /\ udp_stats' = [udp_stats EXCEPT !.total_packets = @ + 1]
    /\ udp' = [udp EXCEPT !.pc = "test"]
    /\ UNCHANGED tcpVars

\* except socket.timeout: continue
UdpRecvTimeout ==
    /\ udp.pc = "recv"
    /\ udp' = [udp EXCEPT !.pc = "test"]
    /\ UNCHANGED <<tcpVars, udp_stats, pkt>>

\* except Exception as e: logger.error(...) around recvfrom and the thread
\* start: the loop goes on
UdpRecvError ==
    /\ udp.pc = "recv"
    /\ udp' = [udp EXCEPT !.pc = "test"]
    /\ UNCHANGED <<tcpVars, udp_stats, pkt>>

\* UDPQoSProxy.stop
UdpStop ==
    /\ udp.running
    /\ udp' = [udp EXCEPT !.running = FALSE]
    /\ UNCHANGED <<tcpVars, udp_stats, pkt>>

\* handle_packet up to forward_socket.close(): a new socket, sendto the
\* origin, recvfrom.  socket.timeout and every other exception end the
\* handler with failed_packets += 1.
UdpForward(k) ==
    /\ pkt[k].pc = "forward"
    /\ \E o \in UdpOriginBehaviours :
         LET Fail(events) ==
               /\ pkt' = [pkt EXCEPT ![k] =
                     [PktStep(k, "done", events \o Locked("udp_stats", <<"failed_packets">>))
                        EXCEPT !.origin = o]]
               /\ udp_stats' = [udp_stats EXCEPT !.failed_packets = @ + 1]
         IN  CASE o.kind = "socket_error" -> Fail(<<"origin_error">>)
               [] o.kind = "send_error" ->
                    Fail(<<"origin_socket", "origin_error">>)
               [] o.kind = "timeout" ->
                    Fail(<<"origin_socket", "origin_send", "origin_timeout">>)
               [] o.kind = "recv_error" ->
                    Fail(<<"origin_socket", "origin_send", "origin_error">>)
               [] o.kind = "reply" ->
                    /\ pkt' = [pkt EXCEPT ![k] =
                          [PktStep(k, "relay", <<"origin_socket", "origin_send",
                                                 "origin_reply", "origin_close">>)
                             EXCEPT !.origin = o, !.response_data = o.reply]]
                    /\ UNCHANGED udp_stats
    /\ UNCHANGED <<tcpVars, udp>>

\* A faulty relay that sends the client's own datagram back: C8 tells it
\* from UdpRelay.
UdpRelay_echo(k) ==
    /\ pkt[k].pc = "relay"
    /\ udp.socket = "open"
    /\ pkt' = [pkt EXCEPT ![k] =
          [PktStep(k, "count", <<"relay">>)
             EXCEPT !.sent = Append(@, [to |-> pkt[k].client_address,
                                        data |-> pkt[k].data])]]
    /\ UNCHANGED <<tcpVars, udp_stats, udp>>

\* A faulty relay that keeps the client address in the proxy object, where
\* the next datagram overwrites it: C23 tells it from UdpRelay.
UdpRelay_lastclient(k) ==
    /\ pkt[k].pc = "relay"
    /\ udp.socket = "open"
    /\ LET last == CHOOSE j \in DOMAIN pkt :
                     /\ pkt[j].pc # "wire"
                     /\ \A i \in DOMAIN pkt : pkt[i].pc # "wire" => i <= j
       IN  pkt' = [pkt EXCEPT ![k] =
             [PktStep(k, "count", <<"relay">>)
                EXCEPT !.sent = Append(@, [to |-> pkt[last].client_address,
                                           data |-> pkt[k].response_data])]]
    /\ UNCHANGED <<tcpVars, udp_stats, udp>>

\* self.socket.sendto(response_data, client_address): it raises when the
\* receive loop has closed the socket, and may raise for the system's own
\* reasons; the exception ends the handler with failed_packets += 1.
UdpRelay(k) ==
    /\ pkt[k].pc = "relay"
    /\ \/ /\ udp.socket = "open"
          /\ pkt' = [pkt EXCEPT ![k] =
                [PktStep(k, "count", <<"relay">>)
                   EXCEPT !.sent = Append(@, [to |-> pkt[k].client_address,
                                              data |-> pkt[k].response_data])]]
          /\ UNCHANGED udp_stats
       \/ /\ pkt' = [pkt EXCEPT ![k] =
                PktStep(k, "done", <<"relay_error">>
                                   \o Locked("udp_stats", <<"failed_packets">>))]
          /\ udp_stats' = [udp_stats EXCEPT !.failed_packets = @ + 1]
    /\ UNCHANGED <<tcpVars, udp>>

\* A faulty handler that logs the relayed datagram without counting it:
\* C28 tells it from UdpCount.
UdpCount_uncounted(k) ==
    /\ pkt[k].pc = "count"
    /\ pkt' = [pkt EXCEPT ![k] = PktStep(k, "done", <<"log">>)]
    /\ UNCHANGED <<tcpVars, udp, udp_stats>>

\* self.stats["forwarded_packets"] += 1 and the log line
UdpCount(k) ==
    /\ pkt[k].pc = "count"
    /\ udp_stats' = [udp_stats EXCEPT !.forwarded_packets = @ + 1]
    /\ pkt' = [pkt EXCEPT ![k] =
          PktStep(k, "done", Locked("udp_stats", <<"forwarded_packets">>) \o <<"log">>)]
    /\ UNCHANGED <<tcpVars, udp>>

(***************************************************************************)
(* SpecUDP: the UDP proxy with NumPkt datagrams, interleaved with each     *)
(* other, with the receive loop and with stop().                           *)
(***************************************************************************)
InitUDP == InitWith(0)

NextUDP ==
    \/ UdpLoopTest
    \/ UdpRecvTimeout
    \/ UdpRecvError
    \/ UdpStop
    \/ \E k \in 1..NumPkt :
          \/ UdpReceive(k)
          \/ UdpForward(k)
          \/ UdpRelay(k)
          \/ UdpCount(k)

SpecUDP == InitUDP /\ [][NextUDP]_vars

\* SpecLiveUDP: the receive loop under the scheduling it gets.  The loop's
\* thread takes its next step, and recvfrom returns after at most the
\* 1.0 s set by settimeout; nothing obliges a datagram to arrive or a
\* handler to make progress.
FairUDP == WF_vars(UdpLoopTest) /\ WF_vars(UdpRecvTimeout)

SpecLiveUDP == InitUDP /\ [][NextUDP]_vars /\ FairUDP

\* SpecFairUDP: moreover every handler thread takes its next step: its
\* forward socket has SOCKET_TIMEOUT, so each of its calls returns.
PacketStep(k) == UdpForward(k) \/ UdpRelay(k) \/ UdpCount(k)

FairPackets == \A k \in 1..NumPkt : WF_vars(PacketStep(k))

SpecFairUDP == InitUDP /\ [][NextUDP]_vars /\ FairUDP /\ FairPackets

(***************************************************************************)
(* HTTPProxy.start and stop: the accept loop.  accept() has no timeout, so *)
(* the loop leaves it only with a connection or an exception.              *)
(***************************************************************************)

\* while self.running: ... and, once it is false, the finally clause
TcpLoopTest ==
    /\ tcp.pc = "test"
    /\ tcp' = IF tcp.running
              THEN [tcp EXCEPT !.pc = "accept"]
              ELSE [tcp EXCEPT !.pc = "stopped", !.socket = "closed"]
    /\ UNCHANGED <<cache, stats, conn, lastOp, udpVars>>

\* client_socket, client_address = self.socket.accept(); the handler
\* thread is started
TcpAccept(h) ==
    /\ tcp.pc = "accept"
    /\ conn[h].pc = "idle"
    /\ \A g \in DOMAIN conn : g < h => conn[g].pc # "idle"
    /\ conn' = [conn EXCEPT ![h] = Step(h, "recv", <<"accept">>)]
    /\ tcp' = [tcp EXCEPT !.pc = "test"]
    /\ UNCHANGED <<cache, stats, lastOp, udpVars>>

\* except Exception as e: logger.error(...) around accept and the thread
\* start: the loop goes on
TcpAcceptError ==
    /\ tcp.pc = "accept"
    /\ tcp' = [tcp EXCEPT !.pc = "test"]
    /\ UNCHANGED <<cache, stats, conn, lastOp, udpVars>>

\* HTTPProxy.stop
TcpStop ==
    /\ tcp.running
    /\ tcp' = [tcp EXCEPT !.running = FALSE]
    /\ UNCHANGED <<cache, stats, conn, lastOp, udpVars>>

(***************************************************************************)
(* SpecProxy: both proxies with their listeners.  The two share no state,  *)
(* so a behaviour exercises one of them: the TCP proxy with NumConn        *)
(* connections or the UDP proxy with NumPkt datagrams.                     *)
(***************************************************************************)
ProxyReads ==
    { Read("data", ReqA),
      Read("data", ReqBad),
      Read("data", << >>),
      Read("timeout", << >>) }

ProxyOriginBehaviours ==
    { Origin("refused", "none", << >>, "none"),
      Origin("timeout", "none", << >>, "none"),
      Origin("ok", "ok", <<Ok200A>>, "close") }

InitProxy == InitWith(NumConn)

\* nothing has happened yet in the TCP proxy, in the UDP proxy
TcpQuiet ==
    /\ tcp = [running |-> TRUE, socket |-> "open", pc |-> "test"]
    /\ \A h \in DOMAIN conn : conn[h].pc = "idle"

UdpQuiet ==
    /\ udp = [running |-> TRUE, socket |-> "open", pc |-> "test"]
    /\ \A k \in DOMAIN pkt : pkt[k].pc = "wire"

NextProxy ==
    \/ UdpQuiet /\ TcpLoopTest
    \/ UdpQuiet /\ TcpAcceptError
    \/ UdpQuiet /\ TcpStop
    \/ \E h \in 1..NumConn :
          \/ UdpQuiet /\ TcpAccept(h)
          \/ RecvRequest(h, ProxyReads)
          \/ CacheLookup(h)
          \/ CountHit(h)
          \/ Forward(h, ProxyOriginBehaviours)
          \/ CountMiss(h)
          \/ Admit(h)
          \/ SendResponse(h)
    \/ TcpQuiet /\ UdpLoopTest
    \/ TcpQuiet /\ UdpRecvTimeout
    \/ TcpQuiet /\ UdpRecvError
    \/ TcpQuiet /\ UdpStop
    \/ \E k \in 1..NumPkt :
          \/ TcpQuiet /\ UdpReceive(k)
          \/ UdpForward(k)
          \/ UdpRelay(k)
          \/ UdpCount(k)

SpecProxy == InitProxy /\ [][NextProxy]_vars

(***************************************************************************)
(* SpecLive: the TCP proxy under the scheduling the threads get.  The      *)
(* accept loop and every handler thread that can take a step eventually    *)
(* take it: each blocking call of a handler returns or times out           *)
(* (settimeout on both of its sockets).  accept() has no timeout, and      *)
(* nothing obliges a client to connect or an origin to end its reply.      *)
(***************************************************************************)

\* an origin that accepts the request and never stops sending: every
\* recv(4096) returns a chunk before SOCKET_TIMEOUT
EndlessOrigin == Origin("ok", "ok", <<Ok200A>>, "endless")

\* forward_to_web_server up to the recv loop, against EndlessOrigin:
\* connect and sendall return
ForwardStreaming(h) ==
    /\ conn[h].pc = "forward"
    /\ conn' = [conn EXCEPT ![h] =
          [Step(h, "receiving", <<"origin_connect", "origin_send">>)
             EXCEPT !.origin = EndlessOrigin,
                    !.origin_rx = EncodedRequest[conn[h].request_data]]]
    /\ UNCHANGED <<cache, stats, lastOp, tcp, udpVars>>

\* while True: chunk = server_socket.recv(4096); response += chunk, with a
\* non-empty chunk: the loop goes on
RecvChunk(h) ==
    /\ conn[h].pc = "receiving"
    /\ conn' = [conn EXCEPT ![h].origin_chunks = (@ + 1) % ChunkWindow]
    /\ UNCHANGED <<cache, stats, lastOp, tcp, udpVars>>

\* the next step of the handler thread h
HandlerStep(h) ==
    \/ RecvRequest(h, ProxyReads)
    \/ CacheLookup(h)
    \/ CountHit(h)
    \/ Forward(h, ProxyOriginBehaviours)
    \/ ForwardStreaming(h)
    \/ RecvChunk(h)
    \/ CountMiss(h)
    \/ Admit(h)
    \/ SendResponse(h)

InitLive == InitWith(NumConn)

NextLive ==
    \/ TcpLoopTest
    \/ TcpAcceptError
    \/ TcpStop
    \/ \E h \in 1..NumConn :
          \/ TcpAccept(h)
          \/ RecvRequest(h, ProxyReads)
          \/ CacheLookup(h)
          \/ CountHit(h)
          \/ Forward(h, ProxyOriginBehaviours)
          \/ ForwardStreaming(h)
          \/ RecvChunk(h)
          \/ CountMiss(h)
          \/ Admit(h)
          \/ SendResponse(h)

FairLive ==
    /\ WF_vars(TcpLoopTest)
    /\ \A h \in 1..NumConn : WF_vars(HandlerStep(h))

SpecLive == InitLive /\ [][NextLive]_vars /\ FairLive

(***************************************************************************)
(* SpecCache: the methods of one HTTPCache called directly, in any order,  *)
(* with any of these paths and response texts.                             *)
(***************************************************************************)
CachePaths == { <<47, 97>>, <<47, 98>>, None }      \* "/a", "/b", None

CacheResponses ==
    { Utf8Decode(Ok200A).text,
      Utf8Decode(Ok200B1 \o Ok200B2).text,
      Prefix200,
      <<72, 84, 84, 80, 47, 49, 46, 49, 32, 50, 48>>,       \* "HTTP/1.1 20"
      <<72, 84, 84, 80, 47, 49, 46, 49, 32, 50, 48, 52, 32, 78, 111, 32, 67, 111, 110, 116, 101, 110, 116, 13, 10, 13, 10>>,       \* "HTTP/1.1 204 No Content\r\n\r\n"
      <<72, 84, 84, 80, 47, 49, 46, 48, 32, 50, 48, 48, 32, 79, 75, 13, 10, 13, 10>>,       \* "HTTP/1.0 200 OK\r\n\r\n"
      <<104, 116, 116, 112, 47, 49, 46, 49, 32, 50, 48, 48, 32, 111, 107, 13, 10, 13, 10>>,       \* "http/1.1 200 ok\r\n\r\n"
      <<32, 72, 84, 84, 80, 47, 49, 46, 49, 32, 50, 48, 48, 32, 79, 75, 13, 10, 13, 10>>,       \* " HTTP/1.1 200 OK\r\n\r\n"
      Utf8Decode(NotFound404).text,
      Resp502,
      Resp504,
      << >> }

InitCache == InitWith(0)

\* cache.get(path)
CacheGet(path) ==
    /\ lastOp' = [op |-> "get", path |-> path, before |-> cache,
                  result |-> HTTPCache_get(cache, path)]
    /\ UNCHANGED <<cache, stats, conn, tcp, udpVars>>

\* cache.set(path, response)
CacheSet(path, response) ==
    LET r == HTTPCache_set(cache, path, response)
    IN  /\ cache' = r.cache
        /\ lastOp' = [op |-> "set", path |-> path, response |-> response,
                      before |-> cache, ret |-> r.ret]
        /\ UNCHANGED <<stats, conn, tcp, udpVars>>

\* cache.clear()
CacheClear ==
    /\ cache' = HTTPCache_clear(cache)
    /\ lastOp' = [op |-> "clear", before |-> cache]
    /\ UNCHANGED <<stats, conn, tcp, udpVars>>

\* cache.get_stats()
CacheGetStats ==
    /\ lastOp' = [op |-> "get_stats", before |-> cache,
                  result |-> HTTPCache_get_stats(cache)]
    /\ UNCHANGED <<cache, stats, conn, tcp, udpVars>>

NextCache ==
    \/ \E path \in CachePaths : CacheGet(path)
    \/ \E path \in CachePaths, response \in CacheResponses : CacheSet(path, response)
    \/ CacheClear
    \/ CacheGetStats

SpecCache == InitCache /\ [][NextCache]_vars

(***************************************************************************)
(* print_stats.  One report: the five TCP counters read one by one under   *)
(* http_proxy.stats_lock, the three UDP counters under                     *)
(* udp_proxy.stats_lock, then cache.get_stats().  A thread that wants a    *)
(* lock the stats thread holds waits for it.                               *)
(***************************************************************************)
TcpCounters ==
    <<"total_requests", "cache_hits", "cache_misses", "gateway_errors",
      "timeout_errors">>

UdpCounters == <<"total_packets", "forwarded_packets", "failed_packets">>

printVars == <<cache, stats, conn, lastOp, tcp, udp_stats, udp, pkt>>

\* A faulty report that reads the TCP counters without taking the lock:
\* C26 tells it from PrintLockTcp.
PrintLockTcp_nolock ==
    /\ report.pc = "sleep"
    /\ report' = [NewReport EXCEPT !.pc = "tcp"]
    /\ UNCHANGED printVars

\* with http_proxy.stats_lock:
PrintLockTcp ==
    /\ report.pc = "sleep"
    /\ report' = [NewReport EXCEPT !.pc = "tcp", !.holding = "stats"]
    /\ UNCHANGED printVars

\* logger.info(f"TCP - ...: {http_proxy.stats[...]}"), the next of the five
PrintReadTcp ==
    /\ report.pc = "tcp"
    /\ Len(report.tcp) < Len(TcpCounters)
    /\ report' = [report EXCEPT !.tcp = Append(@, stats[TcpCounters[Len(@) + 1]])]
    /\ UNCHANGED printVars

\* the end of the first with block
PrintUnlockTcp ==
    /\ report.pc = "tcp"
    /\ Len(report.tcp) = Len(TcpCounters)
    /\ report' = [report EXCEPT !.pc = "udp_wait", !.holding = "none"]
    /\ UNCHANGED printVars

\* with udp_proxy.stats_lock:
PrintLockUdp ==
    /\ report.pc = "udp_wait"
    /\ report' = [report EXCEPT !.pc = "udp", !.holding = "udp_stats"]
    /\ UNCHANGED printVars

\* logger.info(f"UDP - ...: {udp_proxy.stats[...]}"), the next of the three
PrintReadUdp ==
    /\ report.pc = "udp"
    /\ Len(report.udp) < Len(UdpCounters)
    /\ report' = [report EXCEPT !.udp = Append(@, udp_stats[UdpCounters[Len(@) + 1]])]
    /\ UNCHANGED printVars

\* the end of the second with block
PrintUnlockUdp ==
    /\ report.pc = "udp"
    /\ Len(report.udp) = Len(UdpCounters)
    /\ report' = [report EXCEPT !.pc = "cache", !.holding = "none"]
    /\ UNCHANGED printVars

\* logger.info(f"Cache Status: {http_proxy.cache.get_stats()}"), and back
\* to time.sleep(30)
PrintCache ==
    /\ report.pc = "cache"
    /\ report' = [report EXCEPT !.pc = "sleep", !.cache = HTTPCache_get_stats(cache)]
    /\ UNCHANGED printVars

\* the locks are free for the other threads
StatsFree == report.holding # "stats"

UdpStatsFree == report.holding # "udp_stats"

(***************************************************************************)
(* SpecStats: the stats thread beside the handlers of NumConn connections  *)
(* for /a, or beside the handlers of StatsPkt datagrams.  A step that      *)
(* increments a counter takes that counter's lock.                         *)
(***************************************************************************)
StatsReads == { Read("data", ReqA) }

StatsOriginBehaviours ==
    { Origin("refused", "none", << >>, "none"),
      Origin("ok", "ok", <<Ok200A>>, "close") }

InitStats == InitWith(NumConn)

NextStats ==
    \/ PrintLockTcp
    \/ PrintReadTcp
    \/ PrintUnlockTcp
    \/ PrintLockUdp
    \/ PrintReadUdp
    \/ PrintUnlockUdp
    \/ PrintCache
    \/ \E h \in 1..NumConn :
          \/ UdpQuiet /\ Accept(h)
          \/ StatsFree /\ RecvRequest(h, StatsReads)
          \/ CacheLookup(h)
          \/ StatsFree /\ CountHit(h)
          \/ StatsFree /\ Forward(h, StatsOriginBehaviours)
          \/ StatsFree /\ CountMiss(h)
          \/ Admit(h)
          \/ SendResponse(h)
    \/ TcpQuiet /\ UdpLoopTest
    \/ \E k \in 1..StatsPkt :
          \/ UdpStatsFree /\ UdpReceive(k)
          \/ UdpStatsFree /\ UdpForward(k)
          \/ UdpStatsFree /\ UdpRelay(k)
          \/ UdpStatsFree /\ UdpCount(k)

SpecStats == InitStats /\ [][NextStats]_vars

(***************************************************************************)
(* SpecKeys: one client connection after the other, with requests that     *)
(* differ in the path's case or query string, or agree in the path alone.  *)
(***************************************************************************)
KeyOriginBehaviours ==
    { Origin("refused", "none", << >>, "none"),
      Origin("ok", "ok", <<Ok200A>>, "close"),
      Origin("ok", "ok", <<Ok200B1, Ok200B2>>, "timeout") }

InitKeys == InitWith(SeqConn)

NextKeys ==
    \E h \in 1..SeqConn :
       \/ AcceptSeq(h)
       \/ RecvRequest(h, KeyReads)
       \/ CacheLookup(h)
       \/ CountHit(h)
       \/ Forward(h, KeyOriginBehaviours)
       \/ CountMiss(h)
       \/ Admit(h)
       \/ SendResponse(h)

SpecKeys == InitKeys /\ [][NextKeys]_vars

(***************************************************************************)
(* SpecClear: one client connection after the other, for /a or /b, while   *)
(* another thread calls the cache's get, get_stats and clear at any time.  *)
(***************************************************************************)
ClearReads == { Read("data", ReqA), Read("data", ReqB) }

ClearOriginBehaviours ==
    { Origin("refused", "none", << >>, "none"),
      Origin("ok", "ok", <<Ok200A>>, "close") }

InitClear == InitWith(SeqConn)

NextClear ==
    \/ \E path \in CachePaths : CacheGet(path)
    \/ CacheClear
    \/ CacheGetStats
    \/ \E h \in 1..SeqConn :
          \/ AcceptSeq(h)
          \/ RecvRequest(h, ClearReads)
          \/ CacheLookup(h)
          \/ CountHit(h)
          \/ Forward(h, ClearOriginBehaviours)
          \/ CountMiss(h)
          \/ Admit(h)
          \/ SendResponse(h)

SpecClear == InitClear /\ [][NextClear]_vars

(***************************************************************************)
(* SpecSockets: the origin-facing sockets.  forward_to_web_server and      *)
(* handle_packet call close() only after their receive returned (l.116,    *)
(* l.283); on every other path the local variable is the only reference    *)
(* to the socket and the call leaves it to the interpreter, which closes   *)
(* the descriptor when it finalises the object: at once, later or not      *)
(* while the process runs.  ReclaimTcp and ReclaimUdp are that finaliser.  *)
(***************************************************************************)
SocketReads == { Read("data", ReqA) }

SocketOriginBehaviours ==
    { Origin("refused", "none", << >>, "none"),
      Origin("timeout", "none", << >>, "none"),
      Origin("ok", "timeout", << >>, "none"),
      Origin("ok", "ok", <<Ok200B1>>, "error"),
      Origin("ok", "ok", << >>, "timeout"),
      Origin("ok", "ok", <<Ok200A>>, "close") }

\* the trace says which sockets the handler opened and which it closed
TcpUnclosed(h) ==
    Cardinality({i \in DOMAIN conn[h].trace : conn[h].trace[i] = "origin_connect"})
    - Cardinality({i \in DOMAIN conn[h].trace :
                     conn[h].trace[i] \in {"origin_close", "origin_reclaimed"}})

UdpUnclosed(k) ==
    Cardinality({i \in DOMAIN pkt[k].trace : pkt[k].trace[i] = "origin_socket"})
    - Cardinality({i \in DOMAIN pkt[k].trace :
                     pkt[k].trace[i] \in {"origin_close", "origin_reclaimed"}})

\* the finaliser of server_socket, once forward_to_web_server has returned
\* without closing it
ReclaimTcp(h) ==
    /\ conn[h].pc \in {"miss", "admit", "send", "done"}
    /\ TcpUnclosed(h) > 0
    /\ conn' = [conn EXCEPT ![h] = Step(h, conn[h].pc, <<"origin_reclaimed">>)]
    /\ UNCHANGED <<cache, stats, lastOp, tcp, udpVars>>

\* the finaliser of forward_socket, once handle_packet has returned without
\* closing it
ReclaimUdp(k) ==
    /\ pkt[k].pc = "done"
    /\ UdpUnclosed(k) > 0
    /\ pkt' = [pkt EXCEPT ![k] = PktStep(k, "done", <<"origin_reclaimed">>)]
    /\ UNCHANGED <<tcpVars, udp_stats, udp>>

InitSockets == InitWith(NumConn)

NextSockets ==
    \/ \E h \in 1..NumConn :
          \/ UdpQuiet /\ Accept(h)
          \/ RecvRequest(h, SocketReads)
          \/ CacheLookup(h)
          \/ CountHit(h)
          \/ Forward(h, SocketOriginBehaviours)
          \/ CountMiss(h)
          \/ Admit(h)
          \/ SendResponse(h)
          \/ ReclaimTcp(h)
    \/ TcpQuiet /\ UdpLoopTest
    \/ \E k \in 1..StatsPkt :
          \/ UdpReceive(k)
          \/ UdpForward(k)
          \/ UdpRelay(k)
          \/ UdpCount(k)
          \/ ReclaimUdp(k)

SpecSockets == InitSockets /\ [][NextSockets]_vars

(***************************************************************************)
(* SpecErrors: RaceConn concurrent requests for /a against an origin that  *)
(* answers, refuses the connection or lets the connect time out, so that   *)
(* cached responses, hits and failed forwards meet in one run.             *)
(***************************************************************************)
ErrorOriginBehaviours ==
    { Origin("refused", "none", << >>, "none"),
      Origin("timeout", "none", << >>, "none"),
      Origin("ok", "ok", <<Ok200A>>, "close") }

InitErrors == InitWith(RaceConn)

NextErrors ==
    \E h \in 1..RaceConn :
       \/ Accept(h)
       \/ RecvRequest(h, RaceReads)
       \/ CacheLookup(h)
       \/ CountHit(h)
       \/ Forward(h, ErrorOriginBehaviours)
       \/ CountMiss(h)
       \/ Admit(h)
       \/ SendResponse(h)

SpecErrors == InitErrors /\ [][NextErrors]_vars

(***************************************************************************)
(* Vocabulary of the properties.                                           *)
(***************************************************************************)

\* the handler of connection h has done event e
Has(h, e) == \E i \in DOMAIN conn[h].trace : conn[h].trace[i] = e

\* how often
Count(h, e) == Cardinality({i \in DOMAIN conn[h].trace : conn[h].trace[i] = e})

\* how often over all connections
Total(e) ==
    LET RECURSIVE Sum(_)
        Sum(n) == IF n = 0 THEN 0 ELSE Count(n, e) + Sum(n - 1)
    IN  Sum(Len(conn))

\* event a happened, and before the first event b if b happened
Before(h, a, b) ==
    /\ Has(h, a)
    /\ \A j \in DOMAIN conn[h].trace :
         conn[h].trace[j] = b => \E i \in 1..(j - 1) : conn[h].trace[i] = a

\* the bytes or the text begin with H,T,T,P,/,1,.,1,space,2,0,0
Is200(x) ==
    /\ Len(x) >= 12
    /\ x[1] = 72 /\ x[2] = 84 /\ x[3] = 84 /\ x[4] = 80 /\ x[5] = 47
    /\ x[6] = 49 /\ x[7] = 46 /\ x[8] = 49 /\ x[9] = 32
    /\ x[10] = 50 /\ x[11] = 48 /\ x[12] = 48

\* the text of the reply of every behaviour of the origin
ReplyText == [o \in WireOrigins |-> Utf8Decode(Concat(o.chunks)).text]

\* the origin took the request and its reply was read to the end
Completed(o) == o.connect = "ok" /\ o.send = "ok" /\ o.end \in {"close", "timeout"}

\* the connections whose client sent a non-empty request that is UTF-8
RequestReads ==
    {r \in WireReads : r.kind = "data" /\ r.bytes # << >> /\ Utf8Decode(r.bytes).ok}

Requests == {h \in DOMAIN conn : conn[h].read \in RequestReads}

AllDone == \A h \in DOMAIN conn : conn[h].pc = "done"

\* the handler of datagram k has done event e, and how often
PktHas(k, e) == \E i \in DOMAIN pkt[k].trace : pkt[k].trace[i] = e

PktCount(k, e) == Cardinality({i \in DOMAIN pkt[k].trace : pkt[k].trace[i] = e})

PktTotal(e) ==
    LET RECURSIVE Sum(_)
        Sum(n) == IF n = 0 THEN 0 ELSE PktCount(n, e) + Sum(n - 1)
    IN  Sum(Len(pkt))

\* the one datagram that relays the origin's reply of datagram k
ReplyDatagram(k) == [to |-> pkt[k].client_address, data |-> pkt[k].origin.reply]

(***************************************************************************)
(* C1 (SpecRace).  Once a response beginning with "HTTP/1.1 200" was sent  *)
(* to a client for path P, every later cache lookup for P is a hit that    *)
(* serves exactly those bytes, and opens no origin connection.             *)
(* Violated: two handlers miss P together, the origin answers them with    *)
(* different 200 responses, the first is served its own, the second then   *)
(* overwrites the entry (see C9), and a third is served the newer bytes.   *)
(***************************************************************************)
C1_LaterLookupServesSameBytes ==
    [][\A h \in DOMAIN conn :
         (conn[h].pc = "lookup" /\ conn'[h].pc # "lookup") =>
            \A g \in DOMAIN conn :
               (/\ Has(g, "sent")
                /\ conn[g].path = conn[h].path
                /\ Is200(conn[g].client_rx))
               => /\ conn'[h].pc = "hit"
                  /\ Utf8Encode(conn'[h].response) = conn[g].client_rx]_vars

(***************************************************************************)
(* C2 (SpecSeq).  Sequential round trip: the first request for P, to an    *)
(* origin that replies R beginning with "HTTP/1.1 200", delivers exactly R *)
(* and leaves P -> R in the cache; a second identical request started      *)
(* after the first finished receives exactly R, with one origin connection *)
(* and cache_hits = 1.                                                     *)
(* Violated when R is not UTF-8: the decode with errors='ignore' drops     *)
(* bytes of R before it is relayed and cached.                             *)
(***************************************************************************)
C2_SequentialRoundTrip ==
    LET R == Concat(conn[1].origin.chunks)
        P == conn[1].path
    IN  (/\ conn[1].pc = "done"
         /\ Has(1, "sent")
         /\ P # None
         /\ Completed(conn[1].origin)
         /\ Is200(R))
        => /\ conn[1].client_rx = R
           /\ P \in DOMAIN cache
           /\ Utf8Encode(cache[P]) = R
           /\ (/\ conn[2].pc = "done"
               /\ Has(2, "sent")
               /\ conn[2].read = conn[1].read)
              => /\ conn[2].client_rx = R
                 /\ ~Has(2, "origin_connect")
                 /\ Total("origin_connect") = 1
                 /\ stats.cache_hits = 1

(***************************************************************************)
(* C3 (SpecCache).  HTTPCache.set returns true and stores the response     *)
(* under the path iff the response starts with "HTTP/1.1 200"; otherwise   *)
(* it returns false and leaves the map exactly as it was.                  *)
(***************************************************************************)
C3_SetAdmitsIffOk200 ==
    lastOp.op = "set" =>
       LET b == lastOp.before
       IN  /\ lastOp.ret <=> Is200(lastOp.response)
           /\ lastOp.ret =>
                 /\ DOMAIN cache = DOMAIN b \cup {lastOp.path}
                 /\ \A p \in DOMAIN cache :
                      cache[p] = IF p = lastOp.path THEN lastOp.response ELSE b[p]
           /\ ~lastOp.ret => cache = b

\* a 404 response was refused for a path that is cached, and the entry and
\* the rest of the map are as before
C3_Witness ==
    /\ lastOp.op = "set" /\ ~lastOp.ret
    /\ lastOp.response = Utf8Decode(NotFound404).text
    /\ lastOp.path \in DOMAIN cache
    /\ Cardinality(DOMAIN cache) >= 2

(***************************************************************************)
(* C4 (Spec).  Every cached value begins with "HTTP/1.1 200"; a synthetic  *)
(* 502/504 and a non-200 origin response are never admitted; and a request *)
(* for a path whose earlier requests all failed is a miss that contacts    *)
(* the origin again.                                                       *)
(***************************************************************************)
C4_OnlyOk200Cached ==
    /\ \A p \in DOMAIN cache :
         Is200(cache[p]) /\ cache[p] # Resp502 /\ cache[p] # Resp504
    /\ \A h \in DOMAIN conn :
         /\ Has(h, "admitted") => Is200(conn[h].response) /\ Completed(conn[h].origin)
         /\ (Has(h, "admitted") \/ Has(h, "not_admitted"))
              => (Has(h, "admitted") <=> Is200(conn[h].response))
    /\ \A h \in DOMAIN conn :
         (/\ Has(h, "lookup_hit") \/ Has(h, "lookup_miss")
          /\ \A g \in DOMAIN conn :
               (/\ g # h
                /\ conn[g].path = conn[h].path
                /\ Has(g, "admitted") \/ Has(g, "not_admitted"))
               => ~Is200(conn[g].response))
         => /\ Has(h, "lookup_miss")
            /\ conn[h].pc # "forward" => Has(h, "origin_connect")

\* a 502 for /a was not cached, and the next request for /a went to the
\* origin again and had its 200 response cached
C4_Witness ==
    /\ conn[1].pc = "done" /\ conn[1].response = Resp502
    /\ Has(1, "not_admitted")
    /\ conn[2].path = conn[1].path
    /\ Has(2, "origin_connect") /\ Has(2, "admitted")
    /\ conn[1].path \in DOMAIN cache

(***************************************************************************)
(* C5 (Spec).  An origin that accepts the connection and the request but   *)
(* never sends and never closes yields the synthetic 504, sent to the      *)
(* client, and timeout_errors + 1.                                         *)
(* Violated: the recv timeout is caught by the inner "except               *)
(* socket.timeout: break", so the call returns "" and counts nothing.      *)
(***************************************************************************)
C5_SilentOriginGets504 ==
    \A h \in DOMAIN conn :
       conn[h].origin = Origin("ok", "ok", << >>, "timeout")
       => /\ conn[h].response = Resp504
          /\ Count(h, "timeout_errors") = 1
          /\ Has(h, "sent") => conn[h].client_rx = Resp504

(***************************************************************************)
(* C6 (Spec).  A refused connection and every other non-timeout error of   *)
(* a forward give the synthetic 502 with gateway_errors + 1 and            *)
(* timeout_errors unchanged; a forward that got the origin's reply changes *)
(* neither; no forward increments both; the counters are the sums.         *)
(***************************************************************************)
C6_ForwardOutcomes ==
    /\ \A h \in DOMAIN conn :
         conn[h].origin # NoOrigin =>
           LET o == conn[h].origin
               failed == \/ o.connect \in {"refused", "error"}
                         \/ o.connect = "ok" /\ o.send = "error"
                         \/ o.connect = "ok" /\ o.send = "ok" /\ o.end = "error"
               replied == Completed(o) /\ (o.end = "close" \/ o.chunks # << >>)
           IN  /\ failed => /\ conn[h].response = Resp502
                            /\ Count(h, "gateway_errors") = 1
                            /\ Count(h, "timeout_errors") = 0
               /\ replied => /\ Count(h, "gateway_errors") = 0
                             /\ Count(h, "timeout_errors") = 0
                             /\ conn[h].response = ReplyText[o]
               /\ Count(h, "gateway_errors") + Count(h, "timeout_errors") <= 1
    /\ stats.gateway_errors = Total("gateway_errors")
    /\ stats.timeout_errors = Total("timeout_errors")

\* one forward was refused and another failed while reading the reply
C6_Witness ==
    /\ conn[1].origin.connect = "refused" /\ conn[1].response = Resp502
    /\ conn[2].origin.end = "error" /\ conn[2].response = Resp502
    /\ stats.gateway_errors = 2 /\ stats.timeout_errors = 0

C8_UdpOutcome ==
    \A k \in DOMAIN pkt :
       /\ Len(pkt[k].sent) <= 1
       /\ pkt[k].pc = "done" =>
            IF pkt[k].origin.kind = "reply"
            THEN /\ pkt[k].sent = <<ReplyDatagram(k)>>
                 /\ PktCount(k, "forwarded_packets") = 1
                 /\ PktCount(k, "failed_packets") = 0
            ELSE /\ pkt[k].sent = << >>
                 /\ PktCount(k, "failed_packets") = 1
                 /\ PktCount(k, "forwarded_packets") = 0

(***************************************************************************)
(* C8, amended (SpecUDP).  Per datagram: when the origin does not reply,   *)
(* or an error occurs before its reply is read, or the reply is read and   *)
(* the send to the client raises, no datagram is sent to the client,       *)
(* failed_packets + 1 and forwarded_packets unchanged; when the reply is   *)
(* read and the send to the client succeeds, exactly one datagram equal to *)
(* the reply went to the client's address, forwarded_packets + 1 and       *)
(* failed_packets unchanged.  No datagram produces more than one reply,    *)
(* and the counters are the sums over the datagrams.                       *)
(***************************************************************************)
C8_UdpOutcomeRelayed ==
    /\ \A k \in DOMAIN pkt :
         /\ Len(pkt[k].sent) <= 1
         /\ pkt[k].sent # << >> => pkt[k].sent = <<ReplyDatagram(k)>>
         /\ pkt[k].pc = "done" =>
              IF pkt[k].origin.kind = "reply" /\ ~PktHas(k, "relay_error")
              THEN /\ pkt[k].sent = <<ReplyDatagram(k)>>
                   /\ PktCount(k, "forwarded_packets") = 1
                   /\ PktCount(k, "failed_packets") = 0
              ELSE /\ pkt[k].sent = << >>
                   /\ PktCount(k, "failed_packets") = 1
                   /\ PktCount(k, "forwarded_packets") = 0
    /\ udp_stats.forwarded_packets = PktTotal("forwarded_packets")
    /\ udp_stats.failed_packets = PktTotal("failed_packets")

\* one datagram was relayed and counted as forwarded, another had its
\* reply read but the send to the client raised
C8_Witness ==
    /\ \A k \in DOMAIN pkt : pkt[k].pc = "done"
    /\ \E j, k \in DOMAIN pkt :
         /\ pkt[j].sent = <<ReplyDatagram(j)>> /\ pkt[j].origin.reply # pkt[j].data
         /\ pkt[k].origin.kind = "reply" /\ PktHas(k, "relay_error")
    /\ udp_stats.forwarded_packets = 1 /\ udp_stats.failed_packets = 1

(***************************************************************************)
(* C9 (Spec).  A cache entry is never mutated: once the cache maps P to V  *)
(* it maps P to V in every later state.                                    *)
(* Violated: HTTPCache.set assigns unconditionally, so the second of two   *)
(* handlers that missed P together overwrites the entry of the first.      *)
(***************************************************************************)
C9_EntryNeverMutated ==
    [][\A p \in DOMAIN cache : p \in DOMAIN cache' /\ cache'[p] = cache[p]]_vars

(***************************************************************************)
(* C10, as claimed (Spec).  Every accepted connection increments           *)
(* total_requests once and one of cache_hits / cache_misses once, each     *)
(* after the request line is parsed and before the request is forwarded    *)
(* or the response served.                                                 *)
(* Violated by a connection whose read is empty, times out or fails,       *)
(* and by cache_misses, which is incremented after the forward returned.   *)
(***************************************************************************)
C10_EveryConnectionCounted ==
    \A h \in DOMAIN conn :
       conn[h].pc = "done" =>
          /\ Count(h, "total_requests") = 1
          /\ Count(h, "cache_hits") + Count(h, "cache_misses") = 1
          /\ \A e \in {"total_requests", "cache_hits", "cache_misses"} :
               Has(h, e) => /\ Before(h, "parse", e)
                            /\ Before(h, e, "origin_connect")
                            /\ Before(h, e, "sent")

(***************************************************************************)
(* C10, amended (Spec).  A connection whose first read yields a non-empty  *)
(* UTF-8 request increments total_requests once, after the parse and       *)
(* before the lookup, and one of cache_hits / cache_misses once:           *)
(* cache_hits before the cached response is sent, cache_misses after the   *)
(* forward to the origin returned and before the admission attempt and     *)
(* the send.  Any other connection increments none of the three.           *)
(***************************************************************************)
C10_ParsedRequestCountedOnce ==
    /\ \A h \in DOMAIN conn :
         conn[h].pc = "done" =>
            IF h \in Requests
            THEN /\ Count(h, "total_requests") = 1
                 /\ Count(h, "cache_hits") + Count(h, "cache_misses") = 1
                 /\ Before(h, "parse", "total_requests")
                 /\ \A e \in {"lookup_hit", "lookup_miss", "origin_connect",
                              "sent", "send_error"} :
                      Before(h, "total_requests", e)
                 /\ Has(h, "cache_hits") =>
                      /\ Before(h, "lookup_hit", "cache_hits")
                      /\ Before(h, "cache_hits", "sent")
                      /\ Before(h, "cache_hits", "send_error")
                      /\ ~Has(h, "origin_connect")
                 /\ Has(h, "cache_misses") =>
                      /\ Before(h, "origin_connect", "cache_misses")
                      /\ Before(h, "cache_misses", "admitted")
                      /\ Before(h, "cache_misses", "not_admitted")
                      /\ Before(h, "cache_misses", "sent")
                      /\ Before(h, "cache_misses", "send_error")
            ELSE /\ Count(h, "total_requests") = 0
                 /\ Count(h, "cache_hits") = 0
                 /\ Count(h, "cache_misses") = 0
    /\ stats.total_requests = Total("total_requests")
    /\ stats.cache_hits = Total("cache_hits")
    /\ stats.cache_misses = Total("cache_misses")

\* one connection was a counted miss, the other sent nothing and was not
\* counted
C10_Witness ==
    /\ AllDone
    /\ \E h, g \in DOMAIN conn :
         /\ Has(h, "cache_misses") /\ Has(h, "sent")
         /\ Has(g, "recv_empty")
    /\ stats.total_requests = 1 /\ stats.cache_misses = 1 /\ stats.cache_hits = 0

(***************************************************************************)
(* C11 (SpecProxy).  No thread holds the cache lock or a stats lock while  *)
(* it performs a blocking network operation: in the events of every TCP    *)
(* handler, of the UDP receive loop and of every UDP handler, each lock is *)
(* released right after the one map or counter operation that follows its  *)
(* acquisition, and no lock is held at a client recv/sendall, an origin    *)
(* connect/sendall/recv or a UDP sendto/recvfrom.                          *)
(***************************************************************************)
Locks == {"cache", "stats", "udp_stats"}

LockOps ==
    [cache |-> {"lookup_hit", "lookup_miss", "admitted"},
     stats |-> {"total_requests", "cache_hits", "cache_misses",
                "gateway_errors", "timeout_errors"},
     udp_stats |-> {"total_packets", "forwarded_packets", "failed_packets"}]

NetworkEvents ==
    {"recv", "recv_timeout", "recv_error", "recv_empty", "sent", "send_error",
     "origin_connect", "origin_send", "origin_recv",
     "recvfrom", "origin_reply", "origin_timeout", "origin_error",
     "relay", "relay_error"}

LockEvent == [l \in Locks |-> "lock_" \o l]

UnlockEvent == [l \in Locks |-> "unlock_" \o l]

\* Every acquisition is followed by one operation on the lock's data and
\* the release, every release ends such a triple, and a network event is
\* not the event after an acquisition: no lock is held across it.
LockDiscipline(tr) ==
    \A i \in DOMAIN tr :
       /\ \A l \in Locks :
            /\ tr[i] = LockEvent[l] =>
                  /\ i + 2 <= Len(tr)
                  /\ tr[i + 1] \in LockOps[l]
                  /\ tr[i + 2] = UnlockEvent[l]
            /\ tr[i] = UnlockEvent[l] => i >= 3 /\ tr[i - 2] = LockEvent[l]
       /\ tr[i] \in NetworkEvents =>
            i = 1 \/ \A l \in Locks : tr[i - 1] # LockEvent[l]

FailureEvents == {"recv_timeout", "recv_error", "recv_empty", "send_error"}

\* the connection, the datagram the listener takes next
NextConn(h) == conn[h].pc = "idle" /\ \A g \in DOMAIN conn : g < h => conn[g].pc # "idle"

NextPkt(k) == pkt[k].pc = "wire" /\ \A j \in DOMAIN pkt : j < k => pkt[j].pc # "wire"

C12_Isolated ==
    /\ \A h \in DOMAIN conn :
         /\ Count(h, "close") <= 1
         /\ (\E e \in FailureEvents : Has(h, e)) =>
               /\ conn[h].pc = "done"
               /\ conn[h].trace[Len(conn[h].trace)] = "close"
               /\ conn[h].trace[Len(conn[h].trace) - 1] \in FailureEvents
         /\ conn[h].pc = "done" => Count(h, "close") = 1
    /\ \A k \in DOMAIN pkt :
         (PktHas(k, "origin_error") \/ PktHas(k, "origin_timeout")
            \/ PktHas(k, "relay_error")) => pkt[k].pc = "done"
    /\ tcp.running =>
         /\ tcp.socket = "open" /\ tcp.pc \in {"test", "accept"}
         /\ tcp.pc = "accept" => \A h \in DOMAIN conn : NextConn(h) => ENABLED TcpAccept(h)
    /\ udp.running =>
         /\ udp.socket = "open" /\ udp.pc \in {"test", "recv"}
         /\ udp.pc = "recv" => \A k \in DOMAIN pkt : NextPkt(k) => ENABLED UdpReceive(k)

C12_FailureIsolation ==
    /\ []C12_Isolated
    /\ [][/\ \A h \in DOMAIN conn :
              (conn[h].pc # "idle" /\ conn'[h] # conn[h]) =>
                 /\ tcp' = tcp /\ udp' = udp /\ pkt' = pkt
                 /\ \A g \in DOMAIN conn : g # h => conn'[g] = conn[g]
          /\ \A k \in DOMAIN pkt :
              (pkt[k].pc # "wire" /\ pkt'[k] # pkt[k]) =>
                 /\ tcp' = tcp /\ udp' = udp /\ conn' = conn
                 /\ \A j \in DOMAIN pkt : j # k => pkt'[j] = pkt[j]]_vars

\* the first handler failed to decode its request and closed, the origin
\* refused the second one, whose send then failed, and the listener waits
\* in accept for the next connection
C12_Witness ==
    /\ Has(1, "recv_error") /\ conn[1].pc = "done"
    /\ Cardinality(DOMAIN conn) >= 2
    /\ Has(2, "gateway_errors") /\ Has(2, "send_error") /\ conn[2].pc = "done"
    /\ tcp.running /\ tcp.pc = "accept"

(***************************************************************************)
(* C13 (SpecSeq).  A non-empty request whose first line has no second      *)
(* token (path None) is counted in total_requests, forwarded verbatim to   *)
(* the origin, and what the forward returned is sent back to the client.   *)
(* Violated: a 200 response to such a request is cached under the key      *)
(* None (see C14), so the next such request is served from the cache and   *)
(* is not forwarded.                                                       *)
(***************************************************************************)
NoPath(h) == h \in Requests /\ conn[h].path = None

C13_NoPathForwarded ==
    \A h \in DOMAIN conn :
       (NoPath(h) /\ conn[h].pc = "done") =>
          /\ Count(h, "total_requests") = 1
          /\ Count(h, "origin_connect") = 1
          /\ Has(h, "origin_recv") => conn[h].origin_rx = conn[h].read.bytes
          /\ Has(h, "sent") =>
                conn[h].client_rx = Utf8Encode(forward_to_web_server(conn[h].origin).response)

(***************************************************************************)
(* C14 (SpecSeq).  A request with no path never produces a cache HIT: its  *)
(* lookup returns nothing and the request is forwarded to the origin.      *)
(* Violated: HTTPCache.set stores a 200 response under the key None and    *)
(* HTTPCache.get(None) then returns it.                                    *)
(***************************************************************************)
C14_NoPathNeverHits ==
    \A h \in DOMAIN conn :
       NoPath(h) =>
          /\ ~Has(h, "lookup_hit")
          /\ conn[h].cache_status # "HIT"
          /\ conn[h].pc \in {"miss", "admit", "send", "done"} => Has(h, "origin_connect")

(***************************************************************************)
(* C15 (SpecSeq).  The bytes written to the client equal, byte for byte,   *)
(* the bytes received from the origin (miss) or the bytes received from    *)
(* the origin when the entry was cached (hit), also when they are not      *)
(* valid UTF-8.                                                            *)
(* Violated: forward_to_web_server decodes the reply with errors='ignore', *)
(* which drops every byte sequence that is not UTF-8, before the reply is  *)
(* cached and sent.                                                        *)
(***************************************************************************)
C15_RelayedByteForByte ==
    \A h \in DOMAIN conn :
       Has(h, "sent") =>
          /\ (Has(h, "origin_close") /\ Completed(conn[h].origin)) =>
                conn[h].client_rx = Concat(conn[h].origin.chunks)
          /\ Has(h, "lookup_hit") =>
                \E g \in DOMAIN conn :
                   /\ Has(g, "admitted")
                   /\ conn[g].path = conn[h].path
                   /\ conn[h].client_rx = Concat(conn[g].origin.chunks)

(***************************************************************************)
(* C16 (Spec).  When the client's first read is empty or times out, the    *)
(* connection is closed without a response, the origin is not contacted,   *)
(* nothing is retried, and the cache and the five TCP counters are left    *)
(* unchanged.                                                              *)
(***************************************************************************)
\* the read of connection h was empty or timed out
ClientGone(h) ==
    \/ conn[h].read = Read("timeout", << >>)
    \/ conn[h].read = Read("data", << >>)

C16_ClientGone ==
    [][\A h \in DOMAIN conn :
         /\ (conn[h].pc = "recv" /\ ClientGone(h)') =>
               /\ cache' = cache
               /\ stats' = stats
               /\ conn'[h].pc = "done"
               /\ conn'[h].client_rx = << >>
               /\ conn'[h].origin = NoOrigin
               /\ \/ conn'[h].trace = <<"accept", "recv_empty", "close">>
                  \/ conn'[h].trace = <<"accept", "recv_timeout", "close">>
         /\ (conn[h].pc = "done" /\ ClientGone(h)) => conn'[h] = conn[h]]_vars

\* one client timed out and its handler closed, while the handler of the
\* other has counted its request and its miss
C16_Witness ==
    /\ conn[1].trace = <<"accept", "recv_timeout", "close">>
    /\ Cardinality(DOMAIN conn) >= 2
    /\ Has(2, "cache_misses")
    /\ stats.total_requests = 1 /\ stats.cache_misses = 1

(***************************************************************************)
(* C17 (Spec).  Within one TCP connection: the cache lookup happens before *)
(* any origin connection; on a miss the origin round trip is over before   *)
(* the admission attempt, and the admission attempt before the response is *)
(* written; on a hit the response is written with no origin connection and *)
(* no admission attempt; the transaction record is emitted only after the  *)
(* response was written.                                                   *)
(***************************************************************************)
OriginEvents ==
    {"origin_connect", "origin_send", "origin_recv", "origin_close",
     "gateway_errors", "timeout_errors"}

AdmissionEvents == {"admitted", "not_admitted"}

WriteEvents == {"sent", "send_error"}

\* The place of an event in the order the claim states; 0 for the events it
\* does not speak of.
Rank(e) ==
    IF e \in {"lookup_hit", "lookup_miss"} THEN 1
    ELSE IF e \in OriginEvents THEN 2
    ELSE IF e \in AdmissionEvents THEN 3
    ELSE IF e \in WriteEvents THEN 4
    ELSE IF e = "log" THEN 5
    ELSE 0

Ranked(e) == Rank(e) > 0

StepsOrdered(tr) ==
    LET r == SelectSeq(tr, Ranked)
        n == Len(r)
    IN  n > 0 =>
          /\ Rank(r[1]) = 1
          /\ \A i \in 1..(n - 1) :
                /\ Rank(r[i]) <= Rank(r[i + 1])
                /\ Rank(r[i + 1]) # 1
                \* a miss goes through the origin, then admission, then the
                \* write; a hit goes straight to the write
                /\ r[i] = "lookup_miss" => r[i + 1] = "origin_connect"
                /\ r[i] = "lookup_hit" => Rank(r[i + 1]) = 4
                /\ Rank(r[i + 1]) = 3 => Rank(r[i]) = 2
                /\ Rank(r[i + 1]) = 4 => Rank(r[i]) \in {1, 3}
                /\ r[i + 1] = "log" => r[i] = "sent"

C17_StepsOrdered == \A h \in DOMAIN conn : StepsOrdered(conn[h].trace)

\* one handler missed, fetched, admitted, wrote and logged; the other hit
\* and wrote
C17_Witness ==
    /\ Has(1, "origin_close") /\ Has(1, "admitted") /\ Has(1, "log")
    /\ Cardinality(DOMAIN conn) >= 2
    /\ Has(2, "lookup_hit") /\ Has(2, "log")

(***************************************************************************)
(* C18 (SpecLive).  Every accepted TCP connection eventually reaches       *)
(* close: when each blocking socket operation completes or times out,      *)
(* every handler terminates and closes its client socket, on every path,   *)
(* and closes it exactly once.                                             *)
(***************************************************************************)
C18_EveryHandlerCloses ==
    /\ [](\A h \in 1..NumConn : Count(h, "close") <= 1)
    /\ \A h \in 1..NumConn :
         (conn[h].pc # "idle") ~> (conn[h].pc = "done" /\ Count(h, "close") = 1)

(***************************************************************************)
(* C19 (SpecLive).  After stop() has cleared the running flag the accept   *)
(* loop eventually terminates and closes the listening socket, also when   *)
(* no further client ever connects.  Stated for a stop() that finds every  *)
(* client still to come: the loop must stop whether or not one connects.   *)
(***************************************************************************)
C19_ListenerStops ==
    (~tcp.running /\ \A h \in 1..NumConn : conn[h].pc = "idle")
       ~> (tcp.pc = "stopped" /\ tcp.socket = "closed")

(***************************************************************************)
(* C20 (SpecLiveUDP).  The receive timeout of the UDP listener is only a   *)
(* shutdown check: a timeout changes no counter and no in-flight datagram; *)
(* once stop() has cleared the running flag the loop returns from at most  *)
(* one further recvfrom (a timeout or a datagram), never enters recvfrom   *)
(* again, and exits and closes the listening socket, even if no datagram   *)
(* ever arrives.                                                           *)
(***************************************************************************)
UdpStopped == udp.pc = "stopped" /\ udp.socket = "closed"

C20_TimeoutOnlyChecksShutdown ==
    /\ [][UdpRecvTimeout => UNCHANGED <<udp_stats, pkt, tcpVars>>]_vars
    /\ [][(~udp.running /\ udp.pc = "test") => udp'.pc \in {"test", "stopped"}]_vars
    /\ [][udp.pc = "stopped" => udp' = udp]_vars
    /\ (~udp.running) ~> UdpStopped

\* the loop has stopped and closed its socket though no datagram ever arrived
C20_Witness ==
    /\ UdpStopped
    /\ ~udp.running
    /\ \A k \in DOMAIN pkt : pkt[k].pc = "wire"

(***************************************************************************)
(* C21 (SpecLiveUDP). A handler dispatched before stop() is not cancelled   *)
(* and finishes as it would without shutdown: whatever the listener has    *)
(* done meanwhile, an in-flight TCP connection can still be sent its       *)
(* response, and an in-flight datagram whose origin reply has arrived can  *)
(* still have it relayed to its client and be counted as forwarded.        *)
(***************************************************************************)
ResponseWritten(h) == SendResponse(h) /\ conn'[h].client_rx # << >>

ReplyRelayed(k) == UdpRelay(k) /\ pkt'[k].sent = <<ReplyDatagram(k)>>

TcpInFlightFinishes ==
    \A h \in DOMAIN conn :
       /\ conn[h].pc \notin {"idle", "done"} => ENABLED HandlerStep(h)
       /\ conn[h].pc = "send" => ENABLED ResponseWritten(h)

UdpInFlightFinishes(k) ==
    /\ pkt[k].pc = "relay" => ENABLED ReplyRelayed(k)
    /\ pkt[k].pc = "count" => ENABLED UdpCount(k)

\* dispatched(k) while the flag was still set: from then on k can finish
C21_InFlightFinishes ==
    /\ []TcpInFlightFinishes
    /\ \A k \in 1..NumPkt :
         []((udp.running /\ pkt[k].pc # "wire") => []UdpInFlightFinishes(k))

(***************************************************************************)
(* C22 (SpecProxy).  No retry and no connection reuse.  As stated: each    *)
(* TCP request that misses causes exactly one origin connection attempt,   *)
(* each that hits causes none, and each received datagram causes exactly   *)
(* one send to the origin on a socket of its own.  The last part is        *)
(* violated by a handler whose socket.socket() raises: it sends nothing.   *)
(***************************************************************************)
TcpOneAttempt ==
    \A h \in DOMAIN conn :
       /\ Count(h, "origin_connect") <= 1
       /\ Has(h, "lookup_hit") => ~Has(h, "origin_connect")
       /\ (Has(h, "lookup_miss") /\ conn[h].pc # "forward") =>
             Count(h, "origin_connect") = 1

\* handle_packet sends right after it made its socket: one socket, one sendto
UdpSends(k) == PktCount(k, "origin_socket")

Inbox(a) ==
    {ki \in (DOMAIN pkt) \X (1..2) :
        ki[2] <= Len(pkt[ki[1]].sent) /\ pkt[ki[1]].sent[ki[2]].to = a}

C23_ReplyToOwnClient ==
    /\ \A k \in DOMAIN pkt : Len(pkt[k].sent) <= 1
    /\ \A a \in DOMAIN pkt :
         /\ Cardinality(Inbox(a)) <= 1
         /\ \A ki \in Inbox(a) :
               /\ pkt[ki[1]].client_address = a
               /\ pkt[a].origin.kind = "reply"
               /\ pkt[ki[1]].sent[ki[2]].data = pkt[a].origin.reply

\* two datagrams in flight together, answered differently by the origin,
\* each reply relayed to its own client
C23_Witness ==
    /\ Len(pkt) >= 2
    /\ pkt[1].pc = "count" /\ pkt[2].pc = "count"
    /\ pkt[1].origin.reply # pkt[2].origin.reply
    /\ Inbox(1) = {<<1, 1>>} /\ Inbox(2) = {<<2, 1>>}

(***************************************************************************)
(* C24 (SpecClear).  Cache entries are removed only by clear(): no step of *)
(* a handler and no get or get_stats removes a key.  After clear() every   *)
(* lookup returns nothing and get_stats reports zero entries, and a        *)
(* request looked up while the cache is empty is a miss that contacts the  *)
(* origin.                                                                 *)
(***************************************************************************)
KeysKept == DOMAIN cache \subseteq DOMAIN cache'

Cleared ==
    /\ \A p \in CachePaths : ~HTTPCache_get(cache', p).found
    /\ HTTPCache_get_stats(cache').cached_paths = 0
    /\ HTTPCache_get_stats(cache').paths = {}

MissAfterClear ==
    \A h \in 1..SeqConn :
       (conn[h].pc = "lookup" /\ conn'[h].pc # "lookup" /\ cache = EmptyCache)
          => conn'[h].pc = "forward" /\ conn'[h].trace[Len(conn'[h].trace) - 1] = "lookup_miss"

TokenOf(read) ==
    CASE read.bytes = ReqA -> <<47, 97>>
      [] read.bytes = ReqPostA -> <<47, 97>>
      [] read.bytes = ReqUpperA -> <<47, 65>>
      [] read.bytes = ReqQueryA -> <<47, 97, 63, 120, 61, 49>>

LookedUp(h) == Has(h, "lookup_hit") \/ Has(h, "lookup_miss")

\* the earlier connections that admitted a response for h's path token
AdmittedFor(h) ==
    {g \in 1..(h - 1) :
        Has(g, "admitted") /\ TokenOf(conn[g].read) = TokenOf(conn[h].read)}

Latest(S) == CHOOSE g \in S : \A f \in S : f <= g

C25_ExactKey ==
    /\ \A h \in DOMAIN conn :
         LookedUp(h) =>
            /\ conn[h].path = TokenOf(conn[h].read)
            /\ Has(h, "lookup_hit") <=> AdmittedFor(h) # {}
            /\ Has(h, "lookup_hit") =>
                  conn[h].response = conn[Latest(AdmittedFor(h))].response
    /\ DOMAIN cache =
         {TokenOf(conn[g].read) : g \in {f \in DOMAIN conn : Has(f, "admitted")}}

\* "/a" is cached, and the request for "/a?x=1" missed and was cached with
\* another response beside it
C25_Witness ==
    /\ Len(conn) >= 2
    /\ conn[1].read.bytes = ReqA /\ Has(1, "admitted")
    /\ conn[2].read.bytes = ReqQueryA /\ Has(2, "lookup_miss") /\ Has(2, "admitted")
    /\ Cardinality(DOMAIN cache) = 2
    /\ cache[conn[1].path] # cache[conn[2].path]

(***************************************************************************)
(* C26 (SpecStats).  print_stats only observes: none of its steps changes  *)
(* the cache map or one of the eight counters.  It reads each counter set  *)
(* while it holds that set's lock, so the values it has read of a set are  *)
(* those of the current state until it releases the lock: the five TCP     *)
(* counters of one report are the counters of one reachable state.         *)
(***************************************************************************)
ReadSoFar(read, counters, current) ==
    \A i \in 1..Len(read) : read[i] = current[counters[i]]

C26_Snapshot ==
    /\ report.holding = "stats" => ReadSoFar(report.tcp, TcpCounters, stats)
    /\ report.holding = "udp_stats" => ReadSoFar(report.udp, UdpCounters, udp_stats)

C26_StatsObservational ==
    /\ []C26_Snapshot
    /\ [][report' # report => UNCHANGED <<cache, stats, udp_stats>>]_vars
    /\ [][PrintUnlockTcp => ReadSoFar(report'.tcp, TcpCounters, stats')]_vars

\* a report whose five TCP counters were read while a handler had counted
\* its request and not yet classified it, and while another was waiting
\* for the lock
C26_Witness ==
    /\ report.holding = "stats" /\ Len(report.tcp) = 5
    /\ report.tcp[1] = 1 /\ report.tcp[2] + report.tcp[3] = 0
    /\ \E h \in DOMAIN conn : conn[h].pc = "recv"

(***************************************************************************)
(* C27 (SpecLive).  In every reachable state cache_hits + cache_misses <=  *)
(* total_requests, and the difference is the number of handlers that have  *)
(* counted their request and not yet classified it; the two are equal      *)
(* whenever no handler is in flight.                                       *)
(***************************************************************************)
Unclassified ==
    {h \in DOMAIN conn :
        Has(h, "total_requests") /\ ~Has(h, "cache_hits") /\ ~Has(h, "cache_misses")}

InFlight == {h \in DOMAIN conn : conn[h].pc \notin {"idle", "done"}}

C27_ClassifiedAtMostCounted ==
    /\ stats.cache_hits + stats.cache_misses <= stats.total_requests
    /\ stats.total_requests =
         stats.cache_hits + stats.cache_misses + Cardinality(Unclassified)
    /\ Unclassified \subseteq InFlight
    /\ InFlight = {} => stats.cache_hits + stats.cache_misses = stats.total_requests

\* one request was classified and served, the other is counted and still
\* waits for its origin
C27_Witness ==
    /\ stats.total_requests = 2
    /\ stats.cache_hits + stats.cache_misses = 1
    /\ \E h \in DOMAIN conn : conn[h].pc = "receiving" /\ h \in Unclassified
    /\ \E g \in DOMAIN conn : conn[g].pc = "done" /\ Has(g, "sent")

(***************************************************************************)
(* C28 (SpecFairUDP).  In every reachable state forwarded_packets +        *)
(* failed_packets <= total_packets.  Every received datagram increments    *)
(* total_packets once, in the receive loop before its handler is started,  *)
(* and eventually increments exactly one of forwarded_packets and          *)
(* failed_packets, once; the sum equals total_packets whenever no handler  *)
(* is in flight.                                                           *)
(***************************************************************************)
PktInFlight == {k \in DOMAIN pkt : pkt[k].pc \notin {"wire", "done"}}

Outcomes(k) == PktCount(k, "forwarded_packets") + PktCount(k, "failed_packets")

C28_Accounted ==
    /\ udp_stats.forwarded_packets + udp_stats.failed_packets <= udp_stats.total_packets
    /\ udp_stats.total_packets =
         udp_stats.forwarded_packets + udp_stats.failed_packets
         + Cardinality({k \in PktInFlight : Outcomes(k) = 0})
    /\ PktInFlight = {} =>
         udp_stats.forwarded_packets + udp_stats.failed_packets = udp_stats.total_packets
    /\ \A k \in DOMAIN pkt :
         /\ PktCount(k, "total_packets") = (IF pkt[k].pc = "wire" THEN 0 ELSE 1)
         /\ pkt[k].pc # "wire" => pkt[k].trace[3] = "total_packets" /\ pkt[k].trace[5] = "dispatch"
         /\ Outcomes(k) <= 1
         /\ pkt[k].pc = "done" <=> Outcomes(k) = 1

\* of the finitely many datagrams, those received have each been counted
\* in one of the two
AllCounted == \A k \in DOMAIN pkt : pkt[k].pc # "wire" => Outcomes(k) = 1

C28_EveryDatagramCounted ==
    /\ []C28_Accounted
    /\ <>[]AllCounted

\* one datagram was forwarded, one failed, and nothing is in flight
C28_Witness ==
    /\ PktInFlight = {}
    /\ udp_stats.total_packets = 2
    /\ udp_stats.forwarded_packets = 1 /\ udp_stats.failed_packets = 1

AwaitingCount == {h \in DOMAIN conn : conn[h].pc = "miss"}

C30_OnlyPathDecides ==
    \A h \in DOMAIN conn :
       (LookedUp(h) /\ conn[h].path \in DOMAIN cache /\ AdmittedFor(h) # {}) =>
          /\ Has(h, "lookup_hit")
          /\ ~Has(h, "origin_connect")
          /\ conn[h].origin = NoOrigin
          /\ conn[h].response = cache[conn[h].path]
          /\ Has(h, "sent") => conn[h].client_rx = EncodedResponse[cache[conn[h].path]]

\* a GET for /a was cached, and a POST for /a with another version, a
\* header and a body was served that response
C30_Witness ==
    /\ Len(conn) >= 2
    /\ conn[1].read.bytes = ReqA /\ Has(1, "admitted")
    /\ conn[2].read.bytes = ReqPostA /\ Has(2, "lookup_hit") /\ Has(2, "sent")
    /\ conn[2].client_rx = conn[1].client_rx

(***************************************************************************)
(* C31 (SpecSockets).  Every origin-facing socket opened by                *)
(* forward_to_web_server or handle_packet is closed before that handler    *)
(* finishes, on the success path and on every error path, so that no       *)
(* origin socket is open whenever no handler is in flight.  A socket the   *)
(* interpreter finalised before the handler finished counts as closed.     *)
(***************************************************************************)
C31_OriginSocketsClosed ==
    /\ \A h \in DOMAIN conn : conn[h].pc = "done" => TcpUnclosed(h) = 0
    /\ \A k \in DOMAIN pkt : pkt[k].pc = "done" => UdpUnclosed(k) = 0
    /\ (InFlight = {} /\ PktInFlight = {}) =>
          /\ \A h \in DOMAIN conn : TcpUnclosed(h) = 0
          /\ \A k \in DOMAIN pkt : UdpUnclosed(k) = 0

(***************************************************************************)
(* C32 (SpecErrors).   The error counters only move on the miss path: a    *)
(* step of a handler that serves its request from the cache changes        *)
(* neither gateway_errors nor timeout_errors; every request answered with  *)
(* the synthetic 502 or 504 was classified as a cache miss; and whenever   *)
(* no handler is in flight gateway_errors + timeout_errors <= cache_misses *)
(* (while handlers are in flight, the ones between their forward and their *)
(* cache_misses increment make up the difference).                         *)
(***************************************************************************)
Synthetic == {EncodedResponse[Resp502], EncodedResponse[Resp504]}

ErrorCount == stats.gateway_errors + stats.timeout_errors

\* handler h took a step and is on the hit path
HitStep(h) ==
    /\ conn'[h] # conn[h]
    /\ \E i \in DOMAIN conn'[h].trace : conn'[h].trace[i] = "lookup_hit"

C32_State ==
    /\ \A h \in DOMAIN conn :
          conn[h].client_rx \in Synthetic =>
             /\ Has(h, "lookup_miss") /\ ~Has(h, "lookup_hit")
             /\ conn[h].cache_status = "MISS"
             /\ Count(h, "cache_misses") = 1
    /\ ErrorCount <= stats.cache_misses + Cardinality(AwaitingCount)
    /\ InFlight = {} => ErrorCount <= stats.cache_misses

C32_ErrorsOnlyOnMissPath ==
    /\ []C32_State
    /\ [][\A h \in DOMAIN conn :
            HitStep(h) => /\ stats'.gateway_errors = stats.gateway_errors
                          /\ stats'.timeout_errors = stats.timeout_errors]_vars

\* one request was answered with the synthetic 502 and counted as a miss
\* and as a gateway error, another was served from the cache, and no
\* handler is in flight
C32_Witness ==
    /\ InFlight = {}
    /\ \E h \in DOMAIN conn :
          /\ conn[h].client_rx = EncodedResponse[Resp502]
          /\ Has(h, "cache_misses")
    /\ \E h \in DOMAIN conn : Has(h, "cache_hits") /\ Has(h, "sent")
    /\ stats.gateway_errors = 1 /\ stats.cache_misses = 2 /\ stats.cache_hits = 1

=============================================================================
